---- MODULE Spec2Model ----
(***************************************************************************)
(* Verification model of vork's agentic conversation core:                 *)
(*   - Conversation (src/llm/conversation.rs): message log, token          *)
(*     estimate, compaction;                                               *)
(*   - forced compaction of the TUI (src/commands/tui.rs);                 *)
(*   - ApprovalSystem (src/llm/approval.rs) and the gated executors of     *)
(*     execute_tool (src/llm/tools.rs);                                    *)
(*   - the agent loop of the chat, TUI, resume, exec and ask front ends    *)
(*     (src/commands/chat.rs, tui.rs, resume.rs, exec.rs, ask.rs);         *)
(*   - Session (src/llm/session.rs): the session file and its JSON form.   *)
(* Message contents, paths and commands are strings; lengths are byte      *)
(* lengths (all model inputs are ASCII).                                   *)
(***************************************************************************)
EXTENDS Integers, Sequences, FiniteSets, TLC

VARIABLES
    messages,          \* Conversation.messages: sequence of [role, content]
    estimated_tokens,  \* Conversation.estimated_tokens
    max_context,       \* Conversation.max_context
    ret,               \* outcome of the last operation that was called
    alive,             \* FALSE once the process has panicked
    n_assistant,       \* number of add_assistant_message calls made so far
    n_tool,            \* number of add_tool_result calls made so far
    policy,            \* ApprovalSystem.policy
    sandbox_mode,      \* ApprovalSystem.sandbox_mode
    cwd,               \* std::env::current_dir() ("" when it fails)
    files,             \* file system: set of [path, content] written
    dirs,              \* file system: directories created by create_dir_all
    executed,          \* shell commands handed to `bash -c`, in order
    gate,              \* the approval gate's last consultation
    tool_ret,          \* outcome of the last execute_tool call
    frontend,          \* the command that runs the agent loop: chat, tui,
                       \* resume or exec
    full_auto,         \* exec's --full-auto flag (FALSE in the other commands)
    session_id,        \* Session.id
    working_directory, \* Session.working_directory
    pc,                \* where the front end is: idle (waiting for the
                       \* operator), awaiting_backend, dispatching (the for
                       \* loop over tool calls), finishing (after the break),
                       \* exited
    choice,            \* the backend's last response to the loop
    idx,               \* tool calls of that response already processed
    calls,             \* backend calls made by the loop in this exchange
    tool_rounds,       \* responses with a tool_calls field received so far
    request,           \* messages sent with the loop's last backend call
    exchange_start,    \* length of the log when the exchange began
    exchanges,         \* inputs the operator has submitted so far
    saved,             \* the sessions directory: for each id, whether
                       \* <id>.json exists and the Session whose JSON form
                       \* it holds
    exit_status,       \* how the command ended, "running" until it has
    no_tools,          \* ask's --no-tools flag (FALSE in the other commands)
    tools_sent,        \* whether the loop's last backend call carried the
                       \* tool schemas
    warmup,            \* the TUI's warm-up task: pending, ok or failed
                       \* ("none" where no such task was spawned)
    input_history,     \* App.input_history of the TUI
    first_message,     \* App.first_message
    agent_explicitly_set, \* App.agent_explicitly_set
    agents_dir,        \* names of the agents that have a file in the agents
                       \* directory
    now                \* Utc::now().timestamp(): the wall clock, in seconds

vars == <<messages, estimated_tokens, max_context, ret, alive, n_assistant,
          n_tool, policy, sandbox_mode, cwd, files, dirs, executed, gate,
          tool_ret, frontend, pc, choice, idx, calls, tool_rounds, request,
          exchange_start, exchanges, saved, exit_status, full_auto,
          session_id, working_directory, no_tools, tools_sent, warmup,
          input_history, first_message, agent_explicitly_set, agents_dir,
          now>>

sessVars == <<full_auto, session_id, working_directory>>

tuiVars == <<warmup, input_history, first_message, agent_explicitly_set,
             agents_dir>>

uiVars == <<no_tools, tools_sent, tuiVars, now>>

loopVars == <<frontend, pc, choice, idx, calls, tool_rounds, request,
              exchange_start, exchanges, saved, exit_status, sessVars,
              uiVars>>

toolVars == <<policy, sandbox_mode, cwd, files, dirs, executed, gate, tool_ret>>
convAll == <<messages, estimated_tokens, max_context, ret, alive, n_assistant,
             n_tool>>

(***************************************************************************)
(* Bounds of the model.                                                    *)
(***************************************************************************)
MaxMessages == 12
MaxAssistantCalls == 1
MaxToolCalls == 1
MaxTokIn == 12
MaxCtxIn == 12
MaxEffectCalls == 1
MaxExchanges == 1
MaxToolRounds == 1
\* Messages in the log of a session that is saved and loaded.
MaxSessionMessages == 3

(***************************************************************************)
(* Program constants.                                                      *)
(***************************************************************************)
\* Byte length of the SYSTEM_PROMPT raw string literal.
SYSTEM_PROMPT_LEN == 2016
\* Conversation::new: "Default, will be overridden".
DEFAULT_MAX_CONTEXT == 32768
\* Number of most recent messages compaction keeps verbatim.
KEEP_RECENT == 10
\* compact_if_needed returns early when messages.len() <= 11.
MIN_LOG == 11

\* The system prompt text is abbreviated to its first sentence; StrLen gives
\* it the byte length of the full literal.
SYSTEM_PROMPT == "You are Vork, an AI coding assistant powered by a local LLM."

StrLen(text) == IF text = SYSTEM_PROMPT THEN SYSTEM_PROMPT_LEN ELSE Len(text)

(***************************************************************************)
(* Inputs.                                                                 *)
(***************************************************************************)
UserTexts == {"list files"}
AssistantTexts == {"done."}
ToolNames == {"bash_exec"}
ToolResults == {"ok"}
ContextLimits == {600, DEFAULT_MAX_CONTEXT}

\* What client.chat_completion gives back to a summarization request:
\* a failure, a response with no choice, a choice without content, or a
\* choice with content.
Replies ==
    {[kind |-> "err", content |-> ""],
     [kind |-> "no_choices", content |-> ""],
     [kind |-> "ok_none", content |-> ""],
     [kind |-> "ok", content |-> "Summary."]}

(***************************************************************************)
(* Conversation                                                            *)
(***************************************************************************)
Message(role, content) == [role |-> role, content |-> content]

estimate_tokens(text) == (StrLen(text) \div 4) + 10

RECURSIVE SumEstimates(_)
SumEstimates(msgs) ==
    IF msgs = <<>> THEN 0
    ELSE estimate_tokens(Head(msgs).content) + SumEstimates(Tail(msgs))

\* format!("Tool execution result:\nTool: {}\nResult:\n{}", tool_name, result)
ToolResultContent(tool_name, result) ==
    "Tool execution result:\nTool: " \o tool_name \o "\nResult:\n" \o result

\* format!("[Conversation summary of {} messages]\n\n{}", n, summary)
SummaryContent(n, summary) ==
    "[Conversation summary of " \o ToString(n) \o " messages]\n\n" \o summary

Conv(m, t, c) == [messages |-> m, estimated_tokens |-> t, max_context |-> c]

ConversationNew ==
    Conv(<<Message("system", SYSTEM_PROMPT)>>,
         estimate_tokens(SYSTEM_PROMPT),
         DEFAULT_MAX_CONTEXT)

needs_compaction_at_or_above(tokens, ctx) == tokens >= ((ctx * 3) \div 4)

needs_compaction(tokens, ctx) == tokens > ((ctx * 3) \div 4)

\* Option<String>::unwrap_or_default of the reply's content.
UnwrapOrDefault(reply) == IF reply.kind = "ok" THEN reply.content ELSE ""

\* iter().skip(k): the elements after the first k.
Skip(s, k) == SubSeq(s, k + 1, Len(s))
\* iter().take(k): the first k elements.
Take(s, k) == SubSeq(s, 1, k)

MessagesToCompactOverlapping(msgs) ==
    Take(Skip(msgs, 1), Len(msgs) - KEEP_RECENT)

\* messages_to_compact: what goes into the summarization prompt.
MessagesToCompact(msgs) == Take(Skip(msgs, 1), Len(msgs) - MIN_LOG)

RecentMessagesShort(msgs) == Skip(msgs, Len(msgs) - (KEEP_RECENT - 1))

RecentMessages(msgs) == Skip(msgs, Len(msgs) - KEEP_RECENT)

\* The rebuild of the log: system message, summary message, recent messages,
\* with the token estimate recomputed over exactly these.
RebuildDroppingSystem(c, reply) ==
    LET summary_msg == Message("assistant",
                           SummaryContent(Len(MessagesToCompact(c.messages)),
                                          UnwrapOrDefault(reply)))
        recent == RecentMessages(c.messages)
    IN  Conv(<<summary_msg>> \o recent,
             estimate_tokens(summary_msg.content) + SumEstimates(recent),
             c.max_context)

RebuildStaleTokens(c, reply) ==
    LET system_msg == c.messages[1]
        summary_msg == Message("assistant",
                           SummaryContent(Len(MessagesToCompact(c.messages)),
                                          UnwrapOrDefault(reply)))
        recent == RecentMessages(c.messages)
    IN  Conv(<<system_msg, summary_msg>> \o recent,
             c.estimated_tokens + estimate_tokens(summary_msg.content),
             c.max_context)

Rebuild(c, reply) ==
    LET system_msg == c.messages[1]
        summary_msg == Message("assistant",
                           SummaryContent(Len(MessagesToCompact(c.messages)),
                                          UnwrapOrDefault(reply)))
        recent == RecentMessages(c.messages)
    IN  Conv(<<system_msg, summary_msg>> \o recent,
             estimate_tokens(system_msg.content)
                 + estimate_tokens(summary_msg.content)
                 + SumEstimates(recent),
             c.max_context)

\* Outcome of a call: the conversation afterwards, what the call returned,
\* whether the backend was called, and whether the process panicked.
Outcome(c, result, called, panicked) ==
    [conv |-> c, result |-> result, backend |-> called, panic |-> panicked]

\* The summarization request and what follows it (conversation.rs 115-144):
\* `?` returns the error, choices[0] panics on an empty list.
SummarizeEager(c, reply) ==
    IF reply.kind = "err" THEN Outcome(Rebuild(c, reply), "Err", TRUE, FALSE)
    ELSE IF reply.kind = "no_choices" THEN Outcome(c, "panic", TRUE, TRUE)
    ELSE Outcome(Rebuild(c, reply), "Ok(true)", TRUE, FALSE)

Summarize(c, reply) ==
    IF reply.kind = "err" THEN Outcome(c, "Err", TRUE, FALSE)
    ELSE IF reply.kind = "no_choices" THEN Outcome(c, "panic", TRUE, TRUE)
    ELSE Outcome(Rebuild(c, reply), "Ok(true)", TRUE, FALSE)

CompactNoFloor(c, reply) ==
    IF ~needs_compaction(c.estimated_tokens, c.max_context)
    THEN Outcome(c, "Ok(false)", FALSE, FALSE)
    ELSE IF Len(c.messages) <= KEEP_RECENT
    THEN Outcome(c, "Ok(false)", FALSE, FALSE)
    ELSE Summarize(c, reply)

compact_if_needed(c, reply) ==
    IF ~needs_compaction(c.estimated_tokens, c.max_context)
    THEN Outcome(c, "Ok(false)", FALSE, FALSE)
    ELSE IF Len(c.messages) <= MIN_LOG
    THEN Outcome(c, "Ok(false)", FALSE, FALSE)
    ELSE Summarize(c, reply)

ForcedRebuildStaleTokens(c, reply) ==
    Conv(Rebuild(c, reply).messages, c.estimated_tokens, c.max_context)

\* App::handle_compact_command (tui.rs 506-603) repeats the body of
\* compact_if_needed in place, without the threshold test; the token estimate
\* is recomputed with the formula written out.
ForcedRebuild(c, reply) ==
    LET n == Len(c.messages)
        system_msg == c.messages[1]
        messages_to_compact == Take(Skip(c.messages, 1), n - 11)
        recent_messages == Skip(c.messages, n - 10)
        summary_msg == Message("assistant",
                           SummaryContent(Len(messages_to_compact),
                                          UnwrapOrDefault(reply)))
        RECURSIVE SumRecent(_)
        SumRecent(ms) ==
            IF ms = <<>> THEN 0
            ELSE (StrLen(Head(ms).content) \div 4) + 10 + SumRecent(Tail(ms))
    IN  Conv(<<system_msg, summary_msg>> \o recent_messages,
             (StrLen(system_msg.content) \div 4) + 10
                 + (StrLen(summary_msg.content) \div 4) + 10
                 + SumRecent(recent_messages),
             c.max_context)

handle_compact_command_above_threshold(c, reply) ==
    IF Len(c.messages) <= 11
           \/ ~needs_compaction(c.estimated_tokens, c.max_context)
    THEN Outcome(c, "Ok(refused)", FALSE, FALSE)
    ELSE IF reply.kind = "err" THEN Outcome(c, "Err", TRUE, FALSE)
    ELSE IF reply.kind = "no_choices" THEN Outcome(c, "panic", TRUE, TRUE)
    ELSE Outcome(ForcedRebuild(c, reply), "Ok(compacted)", TRUE, FALSE)

handle_compact_command(c, reply) ==
    IF Len(c.messages) <= 11
    THEN Outcome(c, "Ok(refused)", FALSE, FALSE)
    ELSE IF Take(Skip(c.messages, 1), Len(c.messages) - 11) = <<>>
    THEN Outcome(c, "Ok(refused)", FALSE, FALSE)
    ELSE IF reply.kind = "err" THEN Outcome(c, "Err", TRUE, FALSE)
    ELSE IF reply.kind = "no_choices" THEN Outcome(c, "panic", TRUE, TRUE)
    ELSE Outcome(ForcedRebuild(c, reply), "Ok(compacted)", TRUE, FALSE)

Cur == Conv(messages, estimated_tokens, max_context)

SetConv(c) ==
    /\ messages' = c.messages
    /\ estimated_tokens' = c.estimated_tokens
    /\ max_context' = c.max_context

\* What the last call returned, whether it called the backend and, if it did,
\* the kind of reply it got.
Ret(op, result, called, reply) ==
    [op |-> op, result |-> result, backend |-> called, reply |-> reply]

(***************************************************************************)
(* Actions on the Conversation                                             *)
(***************************************************************************)
SetMaxContext ==
    /\ alive
    /\ Len(messages) = 1
    /\ \E m \in ContextLimits :
         /\ max_context' = m
         /\ ret' = Ret("set_max_context", "()", FALSE, "none")
    /\ UNCHANGED <<messages, estimated_tokens, alive, n_assistant, n_tool>>
    /\ UNCHANGED toolVars
    /\ UNCHANGED loopVars

AddUserMessage ==
    /\ alive
    /\ Len(messages) < MaxMessages
    /\ \E content \in UserTexts :
         /\ estimated_tokens' = estimated_tokens + estimate_tokens(content)
         /\ messages' = Append(messages, Message("user", content))
    /\ ret' = Ret("add_user_message", "()", FALSE, "none")
    /\ UNCHANGED <<max_context, alive, n_assistant, n_tool>>
    /\ UNCHANGED toolVars
    /\ UNCHANGED loopVars

AddAssistantMessage ==
    /\ alive
    /\ Len(messages) < MaxMessages
    /\ n_assistant < MaxAssistantCalls
    /\ \E content \in AssistantTexts :
         /\ estimated_tokens' = estimated_tokens + estimate_tokens(content)
         /\ messages' = Append(messages, Message("assistant", content))
    /\ n_assistant' = n_assistant + 1
    /\ ret' = Ret("add_assistant_message", "()", FALSE, "none")
    /\ UNCHANGED <<max_context, alive, n_tool>>
    /\ UNCHANGED toolVars
    /\ UNCHANGED loopVars

AddToolResult ==
    /\ alive
    /\ Len(messages) < MaxMessages
    /\ n_tool < MaxToolCalls
    /\ \E tool_name \in ToolNames, result \in ToolResults :
         LET content == ToolResultContent(tool_name, result)
         IN  /\ estimated_tokens' = estimated_tokens + estimate_tokens(content)
             /\ messages' = Append(messages, Message("user", content))
    /\ n_tool' = n_tool + 1
    /\ ret' = Ret("add_tool_result", "()", FALSE, "none")
    /\ UNCHANGED <<max_context, alive, n_assistant>>
    /\ UNCHANGED toolVars
    /\ UNCHANGED loopVars

CompactIfNeeded ==
    /\ alive
    /\ \E reply \in Replies :
         LET o == compact_if_needed(Cur, reply)
         IN  /\ SetConv(o.conv)
             /\ ret' = Ret("compact_if_needed", o.result, o.backend,
                        IF o.backend THEN reply.kind ELSE "none")
             /\ alive' = ~o.panic
    /\ UNCHANGED <<n_assistant, n_tool>>
    /\ UNCHANGED toolVars
    /\ UNCHANGED loopVars

HandleCompactCommand ==
    /\ alive
    /\ \E reply \in Replies :
         LET o == handle_compact_command(Cur, reply)
         IN  /\ SetConv(o.conv)
             /\ ret' = Ret("handle_compact_command", o.result, o.backend,
                        IF o.backend THEN reply.kind ELSE "none")
             /\ alive' = ~o.panic
    /\ UNCHANGED <<n_assistant, n_tool>>
    /\ UNCHANGED toolVars
    /\ UNCHANGED loopVars

(***************************************************************************)
(* Strings                                                                 *)
(***************************************************************************)
\* str::contains(pattern)
Contains(s, p) ==
    \E i \in 1..(Len(s) - Len(p) + 1) : SubSeq(s, i, i + Len(p) - 1) = p

CharAt(s, i) == SubSeq(s, i, i)

IsWhitespace(c) == c \in {" ", "\n", "\t", "\r"}

RECURSIVE TrimStart(_)
TrimStart(s) ==
    IF Len(s) > 0 /\ IsWhitespace(CharAt(s, 1))
    THEN TrimStart(SubSeq(s, 2, Len(s)))
    ELSE s

RECURSIVE TrimEnd(_)
TrimEnd(s) ==
    IF Len(s) > 0 /\ IsWhitespace(CharAt(s, Len(s)))
    THEN TrimEnd(SubSeq(s, 1, Len(s) - 1))
    ELSE s

\* str::trim
Trim(s) == TrimEnd(TrimStart(s))

\* char::to_lowercase on the ASCII letters.
LowerChar(c) ==
    CASE c = "A" -> "a" [] c = "B" -> "b" [] c = "C" -> "c" [] c = "D" -> "d"
      [] c = "E" -> "e" [] c = "F" -> "f" [] c = "G" -> "g" [] c = "H" -> "h"
      [] c = "I" -> "i" [] c = "J" -> "j" [] c = "K" -> "k" [] c = "L" -> "l"
      [] c = "M" -> "m" [] c = "N" -> "n" [] c = "O" -> "o" [] c = "P" -> "p"
      [] c = "Q" -> "q" [] c = "R" -> "r" [] c = "S" -> "s" [] c = "T" -> "t"
      [] c = "U" -> "u" [] c = "V" -> "v" [] c = "W" -> "w" [] c = "X" -> "x"
      [] c = "Y" -> "y" [] c = "Z" -> "z" [] OTHER -> c

\* str::to_lowercase
RECURSIVE ToLowercase(_)
ToLowercase(s) ==
    IF Len(s) = 0 THEN s
    ELSE LowerChar(CharAt(s, 1)) \o ToLowercase(SubSeq(s, 2, Len(s)))

(***************************************************************************)
(* Paths                                                                   *)
(***************************************************************************)
\* Path::is_absolute
IsAbsolute(path) == Len(path) > 0 /\ CharAt(path, 1) = "/"

\* The pieces of a path between its separators.
RECURSIVE SplitPath(_, _)
SplitPath(path, cur) ==
    IF Len(path) = 0 THEN (IF cur = "" THEN <<>> ELSE <<cur>>)
    ELSE IF CharAt(path, 1) = "/"
    THEN (IF cur = "" THEN <<>> ELSE <<cur>>)
             \o SplitPath(SubSeq(path, 2, Len(path)), "")
    ELSE SplitPath(SubSeq(path, 2, Len(path)), cur \o CharAt(path, 1))

\* Drops the "." pieces that Path::components normalises away (every one
\* but a leading "." of a relative path).
RECURSIVE DropCurDir(_, _)
DropCurDir(parts, keepFirst) ==
    IF parts = <<>> THEN <<>>
    ELSE IF Head(parts) = "." /\ ~keepFirst THEN DropCurDir(Tail(parts), FALSE)
    ELSE <<Head(parts)>> \o DropCurDir(Tail(parts), FALSE)

\* Path::components: the root (for an absolute path) and the normalised
\* pieces; ".." is kept as a component.
Components(path) ==
    IF IsAbsolute(path)
    THEN <<"/">> \o DropCurDir(SplitPath(path, ""), FALSE)
    ELSE DropCurDir(SplitPath(path, ""), TRUE)

\* Path::starts_with: component-wise prefix.
PathStartsWith(path, base) ==
    LET p == Components(path)
        b == Components(base)
    IN  /\ Len(b) <= Len(p)
        /\ SubSeq(p, 1, Len(b)) = b

\* Index of the last separator of a path, 0 when it has none.
LastSlash(path) ==
    IF \E i \in 1..Len(path) : CharAt(path, i) = "/"
    THEN CHOOSE i \in 1..Len(path) :
             /\ CharAt(path, i) = "/"
             /\ \A j \in (i + 1)..Len(path) : CharAt(path, j) # "/"
    ELSE 0

\* Path::parent for a path that names a file: Some("") for a bare file name,
\* Some("/") right under the root.  HasParent is FALSE for None.
HasParent(path) == Components(path) # <<>> /\ Components(path) # <<"/">>

Parent(path) ==
    IF LastSlash(path) = 0 THEN ""
    ELSE IF LastSlash(path) = 1 THEN "/"
    ELSE SubSeq(path, 1, LastSlash(path) - 1)

(***************************************************************************)
(* ApprovalSystem (src/llm/approval.rs)                                    *)
(***************************************************************************)
ApprovalPolicies == {"auto", "read-only", "always-ask", "never"}
SandboxModes == {"read-only", "workspace-write", "danger-full-access"}

\* What the operator's terminal gives to read_line: a line, or an I/O error.
Answers ==
    {[ok |-> TRUE, line |-> "y\n"],
     [ok |-> TRUE, line |-> "n\n"],
     [ok |-> TRUE, line |-> "\n"],
     [ok |-> FALSE, line |-> ""]}

\* More of what the operator may type, for the decision functions alone.
GateAnswers ==
    Answers \cup
    {[ok |-> TRUE, line |-> " YES \n"],
     [ok |-> TRUE, line |-> "Yes\n"],
     [ok |-> TRUE, line |-> "no\n"],
     [ok |-> TRUE, line |-> "yes please\n"],
     [ok |-> TRUE, line |-> "ok\n"]}

\* A decision of the gate: the Result<bool> it returns, whether the operator
\* was prompted, how many lines were read from the terminal and the line read.
Decision(result, prompted) ==
    [result |-> result, prompted |-> prompted, reads |-> 0, line |-> ""]

Asked(result, answer) ==
    [result |-> result, prompted |-> TRUE, reads |-> 1,
     line |-> IF answer.ok THEN answer.line ELSE ""]

prompt_user_empty_is_yes(message, answer) ==
    IF ~answer.ok THEN Asked("Err", answer)
    ELSE IF ToLowercase(Trim(answer.line)) \in {"y", "yes", ""}
    THEN Asked("Ok(true)", answer)
    ELSE Asked("Ok(false)", answer)

prompt_user(message, answer) ==
    IF ~answer.ok THEN Asked("Err", answer)
    ELSE IF ToLowercase(Trim(answer.line)) \in {"y", "yes"}
    THEN Asked("Ok(true)", answer)
    ELSE Asked("Ok(false)", answer)

is_within_workspace(path, dir) ==
    ~IsAbsolute(path) \/ PathStartsWith(path, dir)

dangerous_patterns ==
    {"rm -rf", "rm -fr", "sudo", "shutdown", "reboot", "mkfs", "dd if=",
     "format", "> /dev/", "curl", "wget", "nc ", "netcat"}

critical_patterns ==
    {"sudo", "shutdown", "reboot", "mkfs", "dd if=", "format", "> /dev/"}

is_dangerous_command_without_network(command) ==
    \E pattern \in dangerous_patterns \ {"curl", "wget", "nc ", "netcat"} :
        Contains(command, pattern)

is_dangerous_command(command) ==
    \E pattern \in dangerous_patterns : Contains(command, pattern)

is_critical_dangerous_command(command) ==
    \E pattern \in critical_patterns : Contains(command, pattern)

should_approve_write_read_only_unasked(pol, sandbox, path, dir, answer) ==
    CASE sandbox = "read-only" -> Decision("Ok(false)", FALSE)
      [] sandbox = "workspace-write" ->
           (CASE pol = "auto" ->
                   IF is_within_workspace(path, dir)
                   THEN Decision("Ok(true)", FALSE)
                   ELSE prompt_user("Write file outside workspace: " \o path, answer)
              [] pol = "read-only" -> prompt_user("Write file: " \o path, answer)
              [] pol = "always-ask" -> prompt_user("Write file: " \o path, answer)
              [] pol = "never" -> Decision("Ok(true)", FALSE))
      [] sandbox = "danger-full-access" ->
           (CASE pol = "always-ask" -> prompt_user("Write file: " \o path, answer)
              [] OTHER -> Decision("Ok(true)", FALSE))

should_approve_write(pol, sandbox, path, dir, answer) ==
    CASE sandbox = "read-only" -> Decision("Ok(false)", FALSE)
      [] sandbox = "workspace-write" ->
           (CASE pol = "auto" ->
                   IF is_within_workspace(path, dir)
                   THEN Decision("Ok(true)", FALSE)
                   ELSE prompt_user("Write file outside workspace: " \o path, answer)
              [] pol = "read-only" -> prompt_user("Write file: " \o path, answer)
              [] pol = "always-ask" -> prompt_user("Write file: " \o path, answer)
              [] pol = "never" -> Decision("Ok(true)", FALSE))
      [] sandbox = "danger-full-access" ->
           (CASE pol = "always-ask" -> prompt_user("Write file: " \o path, answer)
              [] pol = "read-only" -> prompt_user("Write file: " \o path, answer)
              [] OTHER -> Decision("Ok(true)", FALSE))

should_approve_bash_sandbox_unchecked(pol, sandbox, command, answer) ==
    CASE pol = "never" -> Decision("Ok(true)", FALSE)
      [] OTHER -> prompt_user("Execute command: " \o command, answer)

should_approve_bash_never_unchecked(pol, sandbox, command, answer) ==
    CASE sandbox = "read-only" -> Decision("Ok(false)", FALSE)
      [] pol = "never" -> Decision("Ok(true)", FALSE)
      [] pol = "auto" /\ sandbox = "danger-full-access" -> Decision("Ok(true)", FALSE)
      [] pol = "auto" /\ ~is_dangerous_command(command) -> Decision("Ok(true)", FALSE)
      [] OTHER -> prompt_user("Execute command: " \o command, answer)

should_approve_bash(pol, sandbox, command, answer) ==
    CASE sandbox = "read-only" -> Decision("Ok(false)", FALSE)
      [] sandbox = "workspace-write" ->
           (CASE pol = "auto" ->
                   IF is_dangerous_command(command)
                   THEN prompt_user("Execute potentially dangerous command: "
                                        \o command, answer)
                   ELSE Decision("Ok(true)", FALSE)
              [] pol = "read-only" ->
                   prompt_user("Execute command: " \o command, answer)
              [] pol = "always-ask" ->
                   prompt_user("Execute command: " \o command, answer)
              [] pol = "never" -> Decision("Ok(true)", FALSE))
      [] sandbox = "danger-full-access" ->
           (CASE pol = "always-ask" ->
                   prompt_user("Execute command: " \o command, answer)
              [] pol = "read-only" ->
                   prompt_user("Execute command: " \o command, answer)
              [] pol = "never" ->
                   IF is_critical_dangerous_command(command)
                   THEN prompt_user("Execute critical system command: "
                                        \o command, answer)
                   ELSE Decision("Ok(true)", FALSE)
              [] OTHER -> Decision("Ok(true)", FALSE))

(***************************************************************************)
(* execute_tool (src/llm/tools.rs)                                         *)
(***************************************************************************)
WritePaths == {"notes.txt", "/work/src/a.rs", "/etc/passwd"}
FileContents == {"fn main() {}"}
Commands == {"ls", "sudo reboot", "rm -rf build", "echo x > /dev/sda"}
\* Commands the gate is asked about: the above and one for each pattern.
GateCommands ==
    Commands \cup
    {"cargo test", "rm -fr build", "shutdown now", "mkfs.ext4 /dev/sdb",
     "dd if=/dev/zero of=disk.img", "git log --format=%H",
     "curl http://localhost", "wget http://localhost", "nc -l 8080",
     "netcat -l 8080"}
WorkingDirs == {"/work", ""}
\* Paths the gate is asked about: the above, relative paths with . and ..
\* components, and absolute paths that climb out of the working directory.
GatePaths ==
    WritePaths \cup
    {"./notes.txt", "src/../notes.txt", "../out.txt", "src/../../out.txt",
     "/work", "/workshop/a.rs", "/work/../etc/passwd", "/work/./b.rs"}

\* The calls a backend response can carry: the two gated tools with and
\* without their required parameters, a read-only tool, an unknown tool.
ToolCalls ==
    {[name |-> "write_file", args |-> [path |-> p, content |-> c]] :
         p \in WritePaths, c \in FileContents}
    \cup {[name |-> "write_file", args |-> [content |-> c]] : c \in FileContents}
    \cup {[name |-> "write_file", args |-> [path |-> p]] : p \in WritePaths}
    \cup {[name |-> "bash_exec", args |-> [command |-> c]] : c \in Commands}
    \cup {[name |-> "bash_exec", args |-> [path |-> "."]],
          [name |-> "list_files", args |-> [path |-> "."]],
          [name |-> "frobnicate", args |-> [path |-> "."]]}

\* What the operating system does with the system calls of a tool:
\* create_dir_all and fs::write for write_file, the spawn of bash and its
\* exit code for bash_exec, fs::read_to_string for read_file.
IoOutcomes(name) ==
    CASE name = "write_file" -> {"ok", "mkdir_fail", "write_fail"}
      [] name = "bash_exec" -> {"ok", "spawn_fail", "exit_1"}
      [] name = "read_file" -> {"ok", "read_fail"}
      [] OTHER -> {"ok"}

Has(args, field) == field \in DOMAIN args

NoGate ==
    [consulted |-> FALSE, kind |-> "none", target |-> "", result |-> "none",
     prompted |-> FALSE, reads |-> 0, line |-> ""]

Gate(kind, target, d) ==
    [consulted |-> TRUE, kind |-> kind, target |-> target, result |-> d.result,
     prompted |-> d.prompted, reads |-> d.reads, line |-> d.line]

\* The file system and process state execute_tool acts on.
Sys(f, d, e) == [files |-> f, dirs |-> d, executed |-> e]

ToolOutcome(result, text, sys, g, effects, name, target) ==
    [result |-> result, text |-> text, sys |-> sys, gate |-> g,
     effects |-> effects, name |-> name, target |-> target]

\* fs::write: creates the file or replaces its content.
WriteFile(f, path, content) ==
    {x \in f : x.path # path} \cup {[path |-> path, content |-> content]}

\* The executor of write_file after the parameters were read (tools.rs
\* 201-218).  approval is the Option<&ApprovalSystem> argument.
WriteFileGated(path, content, approval, dir, sys, answer, io) ==
    LET d == IF approval.some
             THEN should_approve_write(approval.policy, approval.sandbox_mode,
                                       path, dir, answer)
             ELSE Decision("none", FALSE)
        g == IF approval.some THEN Gate("write", path, d) ELSE NoGate
        madeDirs == IF HasParent(path) THEN sys.dirs \cup {Parent(path)}
                    ELSE sys.dirs
        mkdirFx == IF HasParent(path) THEN {"create_dir_all"} ELSE {}
    IN  IF d.result = "Err"
        THEN ToolOutcome("Err", "prompt failed", sys, g, {}, "write_file", path)
        ELSE IF d.result = "Ok(false)"
        THEN ToolOutcome("Ok", "Write to " \o path \o " was denied by user",
                         sys, g, {}, "write_file", path)
        ELSE IF HasParent(path) /\ io = "mkdir_fail"
        THEN ToolOutcome("Err",
                         "Failed to create parent directories for: " \o path,
                         sys, g, {}, "write_file", path)
        ELSE IF io = "write_fail"
        THEN ToolOutcome("Err", "Failed to write file: " \o path,
                         Sys(sys.files, madeDirs, sys.executed), g, mkdirFx,
                         "write_file", path)
        ELSE ToolOutcome("Ok", "Wrote " \o ToString(Len(content))
                                  \o " bytes to " \o path,
                         Sys(WriteFile(sys.files, path, content), madeDirs,
                             sys.executed),
                         g, mkdirFx \cup {"write"}, "write_file", path)

BashExecIgnoringDenial(command, approval, sys, answer, io) ==
    LET d == IF approval.some
             THEN should_approve_bash(approval.policy, approval.sandbox_mode,
                                      command, answer)
             ELSE Decision("none", FALSE)
        g == IF approval.some THEN Gate("bash", command, d) ELSE NoGate
    IN  IF d.result = "Err"
        THEN ToolOutcome("Err", "prompt failed", sys, g, {}, "bash_exec", command)
        ELSE IF io = "spawn_fail"
        THEN ToolOutcome("Err", "Failed to execute command: " \o command,
                         sys, g, {}, "bash_exec", command)
        ELSE ToolOutcome("Ok", "Executed: " \o command,
                         Sys(sys.files, sys.dirs, Append(sys.executed, command)),
                         g, {"exec"}, "bash_exec", command)

\* The executor of bash_exec after the parameter was read (tools.rs 243-269).
BashExecGated(command, approval, sys, answer, io) ==
    LET d == IF approval.some
             THEN should_approve_bash(approval.policy, approval.sandbox_mode,
                                      command, answer)
             ELSE Decision("none", FALSE)
        g == IF approval.some THEN Gate("bash", command, d) ELSE NoGate
    IN  IF d.result = "Err"
        THEN ToolOutcome("Err", "prompt failed", sys, g, {}, "bash_exec", command)
        ELSE IF d.result = "Ok(false)"
        THEN ToolOutcome("Ok", "Command '" \o command \o "' was denied by user",
                         sys, g, {}, "bash_exec", command)
        ELSE IF io = "spawn_fail"
        THEN ToolOutcome("Err", "Failed to execute command: " \o command,
                         sys, g, {}, "bash_exec", command)
        ELSE ToolOutcome("Ok",
                         "Executed: " \o command \o "\nExit code: "
                             \o (IF io = "exit_1" THEN "1" ELSE "0"),
                         Sys(sys.files, sys.dirs, Append(sys.executed, command)),
                         g, {"exec"}, "bash_exec", command)

\* fs::read_to_string of a file that can be read: what this run wrote to
\* it, or the one line an older file holds.
FileContent(f, path) ==
    IF \E x \in f : x.path = path
    THEN (CHOOSE x \in f : x.path = path).content
    ELSE "fn main() {}"

ReadOnlyTools ==
    {"read_file", "list_files", "search_files", "web_search", "analyze_image"}

execute_tool(name, args, approval, dir, sys, answer, io) ==
    CASE name = "write_file" ->
           IF ~Has(args, "path")
           THEN ToolOutcome("Err", "Missing 'path' parameter", sys, NoGate, {},
                            name, "")
           ELSE IF ~Has(args, "content")
           THEN ToolOutcome("Err", "Missing 'content' parameter", sys, NoGate,
                            {}, name, args.path)
           ELSE WriteFileGated(args.path, args.content, approval, dir, sys,
                               answer, io)
      [] name = "bash_exec" ->
           IF ~Has(args, "command")
           THEN ToolOutcome("Err", "Missing 'command' parameter", sys, NoGate,
                            {}, name, "")
           ELSE BashExecGated(args.command, approval, sys, answer, io)
      [] name = "read_file" ->
           IF ~Has(args, "path")
           THEN ToolOutcome("Err", "Missing 'path' parameter", sys, NoGate, {},
                            name, "")
           ELSE IF io = "read_fail"
           THEN ToolOutcome("Err", "Failed to read file: " \o args.path, sys,
                            NoGate, {}, name, args.path)
           ELSE ToolOutcome("Ok",
                            "Read 1 lines from " \o args.path \o "\n\n"
                                \o FileContent(sys.files, args.path),
                            sys, NoGate, {}, name, args.path)
      [] name \in ReadOnlyTools \ {"read_file"} ->
           ToolOutcome("Ok", "read-only result", sys, NoGate, {}, name, "")
      [] OTHER ->
           ToolOutcome("Err", "Unknown tool: " \o name, sys, NoGate, {}, name, "")

\* Every caller passes Some(&approval_system), built from the configuration.
SomeApproval == [some |-> TRUE, policy |-> policy, sandbox_mode |-> sandbox_mode]

NoToolRet ==
    [result |-> "none", text |-> "", effects |-> {}, name |-> "", target |-> ""]

\* One execute_tool call, as the agent loops make it for a tool call of a
\* backend response; the operator's answer and the system calls' outcomes
\* are inputs.
ExecuteTool ==
    /\ \E o \in UNION {{execute_tool(call.name, call.args, SomeApproval, cwd,
                                     Sys(files, dirs, executed), answer, io) :
                            answer \in Answers, io \in IoOutcomes(call.name)} :
                        call \in ToolCalls} :
         /\ o.effects = {} \/ Len(executed) + Cardinality(dirs) < MaxEffectCalls
         /\ files' = o.sys.files
         /\ dirs' = o.sys.dirs
         /\ executed' = o.sys.executed
         /\ gate' = o.gate
         /\ tool_ret' = [result |-> o.result, text |-> o.text,
                         effects |-> o.effects, name |-> o.name,
                         target |-> o.target]
    /\ UNCHANGED <<policy, sandbox_mode, cwd>>
    /\ UNCHANGED convAll
    /\ UNCHANGED loopVars

\* Option values of a backend response.
Some(x) == [some |-> TRUE, val |-> x]
NoToolCalls == [some |-> FALSE, val |-> <<>>]
NoContent == [some |-> FALSE, val |-> ""]

\* ChatCompletionResponse as the loops look at it: whether the call
\* succeeded, and tool_calls and content of choices[0].message.
Response(status, tool_calls, content) ==
    [status |-> status, tool_calls |-> tool_calls, content |-> content]

NoChoice == Response("none", NoToolCalls, NoContent)

(***************************************************************************)
(* Session (src/llm/session.rs)                                            *)
(* The session file holds the serde_json form of the Session: the fields   *)
(* that are serialised, every string as a JSON string literal.  The state  *)
(* keeps the Session that save serialised; the text of the file is         *)
(* computed from it where the file is read.  The two timestamps are left   *)
(* out of the model.                                                       *)
(***************************************************************************)
\* Utc::now().timestamp() at the time of Session::new, in decimal.
\* The second in which the command starts, and the seconds of its run.
StartSecond == 1700000000

ClockSeconds == {StartSecond, StartSecond + 1}

SessionIds == {"1700000000", "1700000001"}
\* env::current_dir() at the time of Session::new.
SessionDirs == {"/work", "/home/u/my \"notes\""}
\* Session::save: the file is written or the write fails.
SaveOutcomes == {"ok", "fail"}
EscapeCharQuoteRaw(c) ==
    CASE c = "\\" -> "\\\\"
      [] c = "\n" -> "\\n"
      [] c = "\t" -> "\\t"
      [] c = "\r" -> "\\r"
      [] OTHER -> c

\* serde_json's escape of one character of a string.
EscapeChar(c) ==
    CASE c = "\"" -> "\\\""
      [] c = "\\" -> "\\\\"
      [] c = "\n" -> "\\n"
      [] c = "\t" -> "\\t"
      [] c = "\r" -> "\\r"
      [] OTHER -> c

RECURSIVE EscapeFrom(_, _)
EscapeFrom(text, i) ==
    IF i > Len(text) THEN ""
    ELSE EscapeChar(CharAt(text, i)) \o EscapeFrom(text, i + 1)

\* A string as serde_json writes it: quoted and escaped.
JsonString(text) == "\"" \o EscapeFrom(text, 1) \o "\""

\* The character an escape sequence \c stands for.
UnescapeChar(c) ==
    CASE c = "n" -> "\n"
      [] c = "t" -> "\t"
      [] c = "r" -> "\r"
      [] OTHER -> c

\* serde_json's reading of a string literal from position i on: up to the
\* first quote that is not escaped.
RECURSIVE UnescapeFrom(_, _)
UnescapeFrom(json, i) ==
    IF i > Len(json) \/ CharAt(json, i) = "\"" THEN ""
    ELSE IF CharAt(json, i) = "\\"
    THEN UnescapeChar(CharAt(json, i + 1)) \o UnescapeFrom(json, i + 2)
    ELSE CharAt(json, i) \o UnescapeFrom(json, i + 1)

ParseJsonString(json) == UnescapeFrom(json, 2)

Session(id, conversation, dir) ==
    [id |-> id, conversation |-> conversation, working_directory |-> dir]

\* Session::new at a moment whose timestamp is id.
SessionNew(id, dir) == Session(id, ConversationNew, dir)

\* id: format!("{}", now.timestamp()): the decimal number of whole seconds.
SessionId(t) == ToString(t)

\* serde_json::to_string_pretty(session): estimated_tokens and max_context
\* are #[serde(skip)] and do not appear.
to_string_pretty(session) ==
    [id |-> JsonString(session.id),
     conversation |->
         [messages |->
              [i \in 1..Len(session.conversation.messages) |->
                  [role |-> JsonString(session.conversation.messages[i].role),
                   content |-> JsonString(
                                   session.conversation.messages[i].content)]]],
     working_directory |-> JsonString(session.working_directory)]

\* serde_json::from_str::<Session>: the skipped fields take their Default,
\* which is 0 for both.
from_str(json) ==
    LET logged == json.conversation.messages
    IN  Session(ParseJsonString(json.id),
                Conv([i \in 1..Len(logged) |->
                         Message(ParseJsonString(logged[i].role),
                                 ParseJsonString(logged[i].content))],
                     0, 0),
                ParseJsonString(json.working_directory))

NoSession == Session("", Conv(<<>>, 0, 0), "")
NoFile == [exists |-> FALSE, written |-> NoSession]
NoFiles == [id \in SessionIds |-> NoFile]

\* Session::save: writes to_string_pretty(self) to <id>.json in the
\* sessions directory, or fails and leaves the directory as it was.
save(session, dir, io) ==
    IF io = "fail"
    THEN [result |-> "Err", saved |-> dir]
    ELSE [result |-> "Ok",
          saved |-> [dir EXCEPT ![session.id] =
                         [exists |-> TRUE, written |-> session]]]

\* fs::read_to_string of <id>.json.
read_to_string(id, dir) == to_string_pretty(dir[id].written)

\* Session::load(session_id): reads <session_id>.json and parses it.
load(id, dir) ==
    IF id \in DOMAIN dir /\ dir[id].exists
    THEN [result |-> "Ok", session |-> from_str(read_to_string(id, dir))]
    ELSE [result |-> "Err", session |-> NoSession]

\* The session the running command holds.
CurSession == Session(session_id, Cur, working_directory)

SetSession(session) ==
    /\ session_id' = session.id
    /\ working_directory' = session.working_directory
    /\ SetConv(session.conversation)

\* No flag of a front end is set and no request has been sent.
UiInit ==
    /\ no_tools = FALSE
    /\ tools_sent = FALSE
    /\ warmup = "none"
    /\ input_history = <<>>
    /\ first_message = TRUE
    /\ agent_explicitly_set = FALSE
    /\ agents_dir = {}
    /\ now = StartSecond

\* No agent loop has run.
LoopInit ==
    /\ full_auto = FALSE
    /\ session_id = "1700000000"
    /\ working_directory = "/work"
    /\ frontend = "chat"
    /\ pc = "idle"
    /\ choice = NoChoice
    /\ idx = 0
    /\ calls = 0
    /\ tool_rounds = 0
    /\ request = <<>>
    /\ exchange_start = 0
    /\ exchanges = 0
    /\ saved = NoFiles
    /\ exit_status = "running"
    /\ UiInit

ToolInit ==
    /\ policy = "never"
    /\ sandbox_mode = "danger-full-access"
    /\ cwd = "/work"
    /\ files = {}
    /\ dirs = {}
    /\ executed = <<>>
    /\ gate = NoGate
    /\ tool_ret = NoToolRet

ConvInit ==
    /\ messages = ConversationNew.messages
    /\ estimated_tokens = ConversationNew.estimated_tokens
    /\ max_context = ConversationNew.max_context
    /\ ret = Ret("new", "()", FALSE, "none")
    /\ alive = TRUE
    /\ n_assistant = 0
    /\ n_tool = 0

Init == ConvInit /\ ToolInit /\ LoopInit

Next ==
    \/ SetMaxContext
    \/ AddUserMessage
    \/ AddAssistantMessage
    \/ AddToolResult
    \/ CompactIfNeeded
    \/ HandleCompactCommand

Spec == Init /\ [][Next]_vars

(***************************************************************************)
(* The gate and the gated executors under every configuration.             *)
(***************************************************************************)
InitTools ==
    /\ ConvInit
    /\ policy \in ApprovalPolicies
    /\ sandbox_mode \in SandboxModes
    /\ cwd = "/work"
    /\ files = {}
    /\ dirs = {}
    /\ executed = <<>>
    /\ gate = NoGate
    /\ tool_ret = NoToolRet
    /\ LoopInit

NextTools == ExecuteTool

SpecTools == InitTools /\ [][NextTools]_vars

(***************************************************************************)
(* The gate's two decision functions under every configuration.            *)
(***************************************************************************)
ShouldApproveWrite ==
    /\ \E path \in GatePaths, answer \in GateAnswers :
         gate' = Gate("write", path,
                      should_approve_write(policy, sandbox_mode, path, cwd, answer))
    /\ UNCHANGED <<policy, sandbox_mode, cwd, files, dirs, executed, tool_ret>>
    /\ UNCHANGED convAll
    /\ UNCHANGED loopVars

ShouldApproveBash ==
    /\ \E command \in GateCommands, answer \in GateAnswers :
         gate' = Gate("bash", command,
                      should_approve_bash(policy, sandbox_mode, command, answer))
    /\ UNCHANGED <<policy, sandbox_mode, cwd, files, dirs, executed, tool_ret>>
    /\ UNCHANGED convAll
    /\ UNCHANGED loopVars

InitGate ==
    /\ ConvInit
    /\ policy \in ApprovalPolicies
    /\ sandbox_mode \in SandboxModes
    /\ cwd \in WorkingDirs
    /\ files = {}
    /\ dirs = {}
    /\ executed = <<>>
    /\ gate = NoGate
    /\ tool_ret = NoToolRet
    /\ LoopInit

NextGate == ShouldApproveWrite \/ ShouldApproveBash

SpecGate == InitGate /\ [][NextGate]_vars

(***************************************************************************)
(* needs_compaction over every pair of small inputs.                       *)
(***************************************************************************)
InitNeeds ==
    /\ messages = ConversationNew.messages
    /\ estimated_tokens \in 0..MaxTokIn
    /\ max_context \in 0..MaxCtxIn
    /\ ret = Ret("new", "()", FALSE, "none")
    /\ alive = TRUE
    /\ n_assistant = 0
    /\ n_tool = 0
    /\ ToolInit
    /\ LoopInit

NeedsCompaction ==
    /\ ret' = Ret("needs_compaction",
                  IF needs_compaction(estimated_tokens, max_context)
                  THEN "true" ELSE "false",
                  FALSE, "none")
    /\ UNCHANGED <<messages, estimated_tokens, max_context, alive,
                   n_assistant, n_tool>>
    /\ UNCHANGED toolVars
    /\ UNCHANGED loopVars

NextNeeds == NeedsCompaction

SpecNeeds == InitNeeds /\ [][NextNeeds]_vars

(***************************************************************************)
(* The agent loop (src/commands/chat.rs 113-166, tui.rs 294-504)           *)
(***************************************************************************)
Frontends == {"chat", "tui", "resume", "exec"}

\* The approval configurations the loop is run under: the default one, one
\* that prompts for every gated call and one whose sandbox denies them.
LoopConfigs ==
    {<<"never", "danger-full-access">>,
     <<"always-ask", "workspace-write">>,
     <<"auto", "read-only">>}

\* A tool call of a response: function.name and function.arguments, a JSON
\* text that serde_json::from_str parses (to args) or rejects.
ToolCall(name, json_ok, args) ==
    [name |-> name, json_ok |-> json_ok, args |-> args]

ToolCallLists ==
    {<<ToolCall("list_files", TRUE, [path |-> "."])>>,
     <<ToolCall("write_file", TRUE,
                [path |-> "notes.txt", content |-> "fn main() {}"]),
       ToolCall("bash_exec", TRUE, [command |-> "ls"])>>,
     <<ToolCall("bash_exec", TRUE, [command |-> "ls"]),
       ToolCall("write_file", FALSE, [path |-> "notes.txt"])>>,
     <<ToolCall("frobnicate", TRUE, [path |-> "."]),
       ToolCall("read_file", TRUE, [path |-> "missing.txt"]),
       ToolCall("write_file", TRUE, [path |-> "notes.txt"])>>}

\* Contents of a response without tool calls (no carriage returns).
FinalContents ==
    {NoContent, Some(""), Some(" \n"),
     Some("Done.\n\nslot 3 released\nBye.")}

\* What chat_completion gives the loop: a failure (transport, status or
\* JSON), a response without choices, a response whose first choice has a
\* tool_calls field, and one whose first choice has none.
BackendResponses ==
    {Response("err", NoToolCalls, NoContent),
     Response("no_choices", NoToolCalls, NoContent)}
    \cup {Response("ok", Some(list), NoContent) : list \in ToolCallLists}
    \cup {Response("ok", Some(<<>>), Some("done."))}
    \cup {Response("ok", NoToolCalls, content) : content \in FinalContents}

AddMessage(c, role, content) ==
    Conv(Append(c.messages, Message(role, content)),
         c.estimated_tokens + estimate_tokens(content),
         c.max_context)

add_user_message(c, content) == AddMessage(c, "user", content)

add_assistant_message(c, content) == AddMessage(c, "assistant", content)

add_tool_result(c, tool_name, result) ==
    AddMessage(c, "user", ToolResultContent(tool_name, result))

StartsWith(s, p) == Len(s) >= Len(p) /\ SubSeq(s, 1, Len(p)) = p

\* str::lines: the pieces between line feeds, without a last empty piece.
RECURSIVE Lines(_, _)
Lines(s, cur) ==
    IF Len(s) = 0 THEN (IF cur = "" THEN <<>> ELSE <<cur>>)
    ELSE IF CharAt(s, 1) = "\n"
    THEN <<cur>> \o Lines(SubSeq(s, 2, Len(s)), "")
    ELSE Lines(SubSeq(s, 2, Len(s)), cur \o CharAt(s, 1))

\* The filter closure of the TUI: llama.cpp slot lines and blank lines go.
KeepLine(line) ==
    /\ ~StartsWith(ToLowercase(line), "slot ")
    /\ ~Contains(ToLowercase(line), "slot processing")
    /\ ~Contains(ToLowercase(line), "slot released")
    /\ Trim(line) # ""

RECURSIVE Join(_, _)
Join(lines, sep) ==
    IF lines = <<>> THEN ""
    ELSE IF Len(lines) = 1 THEN Head(lines)
    ELSE Head(lines) \o sep \o Join(Tail(lines), sep)

filtered_content(content) == Join(SelectSeq(Lines(content, ""), KeepLine), "\n")

\* The final-answer branch of chat: content, when there is one, is appended
\* as it came.
FinalAnswerChat(c, content) ==
    IF content.some THEN add_assistant_message(c, content.val) ELSE c

FinalAnswerTuiUnfiltered(c, content) ==
    IF content.some THEN add_assistant_message(c, content.val) ELSE c

\* The final-answer branch of the TUI: the filtered content is appended when
\* it is not empty; otherwise the operator gets a warning at most.
FinalAnswerTui(c, content) ==
    IF content.some /\ filtered_content(content.val) # ""
    THEN add_assistant_message(c, filtered_content(content.val))
    ELSE c

\* The final-answer branch of ask: the content is printed and the command
\* returns; nothing is appended.
FinalAnswerAsk(c, content) == c

\* `for tool_call in tool_calls`: the call the loop takes next.
NextToolCallReversed(list, done) == list[Len(list) - done]

NextToolCall(list, done) == list[done + 1]

\* Where the loop goes once `done` calls of the list are processed: to the
\* next call, or through `continue` to the next chat_completion.
AfterToolCallBreaks(list, done) ==
    IF done < Len(list) THEN "dispatching" ELSE "finishing"

AfterToolCall(list, done) ==
    IF done < Len(list) THEN "dispatching" ELSE "awaiting_backend"

ToolResultTextAlwaysError(o) == "Error: " \o o.text

ToolResultTextNeverError(o) == o.text

\* The text add_tool_result gets for an execute_tool result.
ToolResultText(o) == IF o.result = "Ok" THEN o.text ELSE "Error: " \o o.text

\* The agents auto_select looks for, in the order of its table, with
\* their keywords; the table's other agents have no file in the model's
\* agents directories, so that Agent::load fails for them.
agent_keywords ==
    <<[name |-> "test-writer",
       keywords |-> <<"test", "unit test", "integration test", "e2e",
                      "coverage", "tdd", "pytest", "jest", "assert">>],
      [name |-> "debugger",
       keywords |-> <<"debug", "fix bug", "error", "crash", "issue", "broken",
                      "not working", "failing">>]>>

AgentNames == {"test-writer", "debugger"}

\* The system_prompt of the agent file <name>.json.
AgentSystemPrompt(name) ==
    IF name = "debugger" THEN "You are a debugging specialist for Rust."
    ELSE "You write tests."

NoAgent == [some |-> FALSE, val |-> ""]

\* Agent::auto_select: the first agent of the table one of whose keywords
\* is in the lower-cased task and whose file loads.
RECURSIVE SelectFrom(_, _, _)
SelectFrom(task_lower, table, dir) ==
    IF table = <<>> THEN NoAgent
    ELSE IF /\ Head(table).name \in dir
            /\ \E k \in 1..Len(Head(table).keywords) :
                  Contains(task_lower, Head(table).keywords[k])
    THEN Some(Head(table).name)
    ELSE SelectFrom(task_lower, Tail(table), dir)

auto_select(task, dir) == SelectFrom(ToLowercase(task), agent_keywords, dir)

\* session.conversation.messages[0].content = agent.system_prompt.clone():
\* the content of the first message is overwritten in place.
SystemPromptReplaced(c, prompt) ==
    Conv(<<Message(c.messages[1].role, prompt)>> \o Tail(c.messages),
         c.estimated_tokens,
         c.max_context)

\* Whether do_send_message looks for an agent: the TUI, on the first
\* message, when no agent was named at startup.
AutoSelects == frontend = "tui" /\ first_message /\ ~agent_explicitly_set

\* The front end starts an exchange on `text`: the TUI's do_send_message up
\* to its loop (agent auto-selection, add_user_message), the
\* add_user_message of the other front ends.
StartExchange(text) ==
    /\ LET selected == IF AutoSelects THEN auto_select(text, agents_dir)
                        ELSE NoAgent
           c == IF selected.some
                THEN SystemPromptReplaced(Cur, AgentSystemPrompt(selected.val))
                ELSE Cur
       IN  SetConv(add_user_message(c, text))
    /\ first_message' = IF AutoSelects THEN FALSE ELSE first_message
    /\ ret' = Ret("add_user_message", "()", FALSE, "none")
    /\ exchange_start' = Len(messages)
    /\ exchanges' = exchanges + 1
    /\ calls' = 0
    /\ idx' = 0
    /\ choice' = NoChoice
    /\ pc' = "awaiting_backend"
    /\ UNCHANGED <<alive, n_assistant, n_tool, frontend, tool_rounds, request,
                   saved, exit_status, sessVars, no_tools, tools_sent, warmup,
                   agent_explicitly_set, agents_dir, now>>
    /\ UNCHANGED toolVars

\* The operator submits a line which is neither empty nor a command; the
\* TUI's prepare_send_message pushes it to input_history and
\* do_send_message takes it from there.
\* Whether the front end takes another line: within the bound, and exec
\* and ask run one exchange, on the text of their command line.
TakesInput ==
    /\ alive
    /\ pc = "idle"
    /\ exchanges < MaxExchanges
    /\ frontend \in {"exec", "ask"} => exchanges = 0

\* App.input_history after prepare_send_message has pushed the line.
Pushed(text) ==
    IF frontend = "tui" THEN Append(input_history, text) ELSE input_history

\* The lines of UserTexts hold no agent keyword.
SubmitInput ==
    /\ TakesInput
    /\ \E text \in UserTexts :
         /\ input_history' = Pushed(text)
         /\ StartExchange(text)

\* The `tools` argument of chat_completion: every loop passes
\* Some(get_available_tools()), ask passes None under --no-tools.
SendsTools(fe, nt) == ~(fe = "ask" /\ nt)

BackendFailedOnlyTransport(r) == r.status = "err"

\* The two `?` after the backend call: chat_completion returned Err
\* (transport error, non-2xx status, unparsable body) or the response has
\* no first choice.
BackendFailed(r) == r.status # "ok"

\* client.chat_completion(conversation.get_messages(), tools) and what the
\* loop does with the response up to its next await.
BackendRespond ==
    /\ alive
    /\ pc = "awaiting_backend"
    /\ \E r \in BackendResponses :
         /\ (r.status = "ok" /\ r.tool_calls.some) => tool_rounds < MaxToolRounds
         /\ choice' = r
         /\ IF BackendFailed(r)
            THEN /\ pc' = "exited"
                 /\ exit_status' = "Err"
                 /\ UNCHANGED <<messages, estimated_tokens, max_context, ret,
                                n_assistant, tool_rounds>>
            ELSE IF r.tool_calls.some
            THEN /\ pc' = AfterToolCall(r.tool_calls.val, 0)
                 /\ tool_rounds' = tool_rounds + 1
                 /\ UNCHANGED <<messages, estimated_tokens, max_context, ret,
                                n_assistant, exit_status>>
            ELSE LET c == CASE frontend = "tui" -> FinalAnswerTui(Cur, r.content)
                            [] frontend = "ask" -> FinalAnswerAsk(Cur, r.content)
                            [] OTHER -> FinalAnswerChat(Cur, r.content)
                 IN  /\ SetConv(c)
                     /\ pc' = "finishing"
                     /\ IF c = Cur
                        THEN UNCHANGED <<ret, n_assistant>>
                        ELSE /\ ret' = Ret("add_assistant_message", "()",
                                           FALSE, "none")
                             /\ n_assistant' = n_assistant + 1
                     /\ UNCHANGED <<tool_rounds, exit_status>>
    /\ request' = messages
    /\ tools_sent' = SendsTools(frontend, no_tools)
    /\ calls' = calls + 1
    /\ idx' = 0
    /\ UNCHANGED <<alive, n_tool, frontend, exchange_start, exchanges, saved,
                   sessVars, no_tools, tuiVars, now>>
    /\ UNCHANGED toolVars

\* One turn of the for loop over the tool calls of the response.
DispatchTool ==
    /\ alive
    /\ pc = "dispatching"
    /\ LET list == choice.tool_calls.val
           call == NextToolCall(list, idx)
       IN  IF ~call.json_ok
           THEN /\ pc' = "exited"
                /\ exit_status' = "Err"
                /\ UNCHANGED <<messages, estimated_tokens, max_context, ret,
                               n_tool, idx>>
                /\ UNCHANGED <<files, dirs, executed, gate, tool_ret>>
           ELSE \E o \in {execute_tool(call.name, call.args, SomeApproval, cwd,
                                       Sys(files, dirs, executed), answer, io) :
                              answer \in Answers, io \in IoOutcomes(call.name)} :
                  /\ files' = o.sys.files
                  /\ dirs' = o.sys.dirs
                  /\ executed' = o.sys.executed
                  /\ gate' = o.gate
                  /\ tool_ret' = [result |-> o.result, text |-> o.text,
                                  effects |-> o.effects, name |-> o.name,
                                  target |-> o.target]
                  /\ SetConv(add_tool_result(Cur, call.name, ToolResultText(o)))
                  /\ ret' = Ret("add_tool_result", "()", FALSE, "none")
                  /\ n_tool' = n_tool + 1
                  /\ idx' = idx + 1
                  /\ pc' = AfterToolCall(list, idx + 1)
                  /\ UNCHANGED exit_status
    /\ UNCHANGED <<alive, n_assistant, frontend, choice, calls, tool_rounds,
                   request, exchange_start, exchanges, saved, sessVars, uiVars>>
    /\ UNCHANGED <<policy, sandbox_mode, cwd>>

\* ask holds a bare Conversation; the other front ends hold a Session.
HasSession(fe) == fe # "ask"

\* A text of n copies of `piece`.
RECURSIVE Repeat(_, _)
Repeat(piece, n) == IF n = 0 THEN "" ELSE piece \o Repeat(piece, n - 1)

\* The request carries no max_tokens (client.rs 77-85), so the summary can
\* be of any length: this one is longer than the messages it stands for.
LongSummary == Repeat("The conversation went on as follows. ", 96)

\* Number of messages of the log of end-to-end scenario C.
ScenarioLen == 40

\* The replies to the summarization request of compact_if_needed after an
\* exchange; for logs of scenario C's size also the long summary.
SummaryReplies(c) ==
    IF Len(c.messages) >= ScenarioLen
    THEN Replies \cup {[kind |-> "ok", content |-> LongSummary]}
    ELSE Replies

\* Whether the front end runs compact_if_needed after the exchange.
CompactsAfterExchange(fe) == fe = "tui"

\* After the break: the TUI runs compact_if_needed; every front end saves
\* the session.  exec then returns, the others wait for the operator again.
FinishExchange ==
    /\ alive
    /\ pc = "finishing"
    /\ \E io \in SaveOutcomes,
          reply \in IF /\ CompactsAfterExchange(frontend)
                       /\ compact_if_needed(Cur, [kind |-> "err", content |-> ""]).backend
                    THEN SummaryReplies(Cur)
                    ELSE {[kind |-> "err", content |-> ""]} :
         LET o == IF CompactsAfterExchange(frontend)
                  THEN compact_if_needed(Cur, reply)
                  ELSE Outcome(Cur, "none", FALSE, FALSE)
             written == IF HasSession(frontend)
                        THEN save(Session(session_id, o.conv,
                                          working_directory), saved, io)
                        ELSE [result |-> "Ok", saved |-> saved]
             failed == o.panic \/ o.result = "Err" \/ written.result = "Err"
         IN  /\ SetConv(o.conv)
             /\ alive' = ~o.panic
             /\ IF CompactsAfterExchange(frontend)
                THEN ret' = Ret("compact_if_needed", o.result, o.backend,
                                IF o.backend THEN reply.kind ELSE "none")
                ELSE UNCHANGED ret
             /\ pc' = IF failed \/ frontend \in {"exec", "ask"}
                      THEN "exited" ELSE "idle"
             /\ exit_status' = IF o.panic THEN "panic"
                               ELSE IF failed THEN "Err"
                               ELSE IF frontend \in {"exec", "ask"} THEN "Ok"
                               ELSE exit_status
             /\ saved' = IF o.panic \/ o.result = "Err" THEN saved
                         ELSE written.saved
    /\ UNCHANGED <<n_assistant, n_tool, frontend, choice, idx, calls,
                   tool_rounds, request, exchange_start, exchanges, sessVars,
                   uiVars>>
    /\ UNCHANGED toolVars

\* Whether the front end saves the session when the operator leaves.
SavesOnExit(fe) == fe \in {"chat", "resume"}

\* The operator types exit or quit at the prompt of an interactive front
\* end.
Exit ==
    /\ alive
    /\ pc = "idle"
    /\ frontend \in {"chat", "resume", "tui"}
    /\ \E io \in SaveOutcomes :
         LET written == IF SavesOnExit(frontend)
                        THEN save(CurSession, saved, io)
                        ELSE [result |-> "Ok", saved |-> saved]
         IN  /\ saved' = written.saved
             /\ exit_status' = written.result
    /\ pc' = "exited"
    /\ UNCHANGED <<frontend, choice, idx, calls, tool_rounds, request,
                   exchange_start, exchanges, sessVars, uiVars>>
    /\ UNCHANGED convAll
    /\ UNCHANGED toolVars

\* The configurations exec can find in the configuration file.
ExecConfigs == ApprovalPolicies \X SandboxModes

ExecSandboxFromConfig(configured, fa) ==
    IF fa THEN "danger-full-access" ELSE configured

\* exec's override of the configured sandbox mode and approval policy.
ExecSandbox(configured, fa) ==
    IF fa THEN "danger-full-access" ELSE "read-only"

ExecPolicy(configured, fa) == IF fa THEN "never" ELSE configured

\* The session file resume finds: the one a chat left after one exchange.
ResumableSession ==
    Session("1700000000",
            add_assistant_message(add_user_message(ConversationNew, "list files"),
                                  "Done."),
            "/work")

ResumableFiles == save(ResumableSession, NoFiles, "ok").saved

\* What the command holds when it reaches its input prompt (exec: its
\* add_user_message).
StartSession(fe) ==
    IF fe = "resume" THEN load("1700000000", ResumableFiles).session
    ELSE SessionNew("1700000000", "/work")

\* The configurations each command is started with.
StartConfigs(fe, fa) ==
    CASE fe = "chat" -> LoopConfigs
      [] fe = "tui" -> {<<"always-ask", "workspace-write">>}
      [] fe = "resume" -> {<<"auto", "read-only">>}
      [] fe = "exec" -> IF fa THEN {<<"auto", "workspace-write">>}
                        ELSE ExecConfigs

InitLoop ==
    \E fe \in Frontends, config \in ExecConfigs, fa \in BOOLEAN :
      /\ config \in StartConfigs(fe, fa)
      /\ fe # "exec" => ~fa
      /\ frontend = fe
      /\ full_auto = fa
      /\ policy = IF fe = "exec" THEN ExecPolicy(config[1], fa) ELSE config[1]
      /\ sandbox_mode = IF fe = "exec" THEN ExecSandbox(config[2], fa)
                        ELSE config[2]
      /\ cwd = "/work"
      /\ files = {}
      /\ dirs = {}
      /\ executed = <<>>
      /\ gate = NoGate
      /\ tool_ret = NoToolRet
      /\ session_id = StartSession(fe).id
      /\ working_directory = StartSession(fe).working_directory
      /\ messages = StartSession(fe).conversation.messages
      /\ estimated_tokens = StartSession(fe).conversation.estimated_tokens
      \* chat and exec keep the default of Conversation::new; the TUI sets the
      \* configured context_limit, whose default is the same number; resume
      \* keeps what load gave it.
      /\ max_context = StartSession(fe).conversation.max_context
      /\ ret = Ret(IF fe = "resume" THEN "load" ELSE "new", "()", FALSE, "none")
      /\ alive = TRUE
      /\ n_assistant = 0
      /\ n_tool = 0
      /\ pc = "idle"
      /\ choice = NoChoice
      /\ idx = 0
      /\ calls = 0
      /\ tool_rounds = 0
      /\ request = <<>>
      /\ exchange_start = 0
      /\ exchanges = 0
      /\ saved = IF fe = "resume" THEN ResumableFiles ELSE NoFiles
      /\ exit_status = "running"
      /\ no_tools = FALSE
      /\ tools_sent = FALSE
      \* the TUI's warm-up request has been answered; no agent was named on
      \* the command line and the agents directory is empty
      /\ warmup = IF fe = "tui" THEN "ok" ELSE "none"
      /\ input_history = <<>>
      /\ first_message = TRUE
      /\ agent_explicitly_set = FALSE
      /\ agents_dir = {}
      /\ now = StartSecond

WarmupEffectOnLog(c, outcome) == add_user_message(c, "Hi")

\* What the warm-up task leaves of the Conversation: the task owns its
\* client and its own "Hi" message and drops the result.
WarmupEffect(c, outcome) == c

\* The warm-up request spawned at startup of the TUI completes, with a
\* response or with an error; the run time drops the task when the command
\* ends.
Warmup ==
    /\ alive
    /\ frontend = "tui"
    /\ warmup = "pending"
    /\ pc # "exited"
    /\ \E outcome \in {"ok", "failed"} :
         /\ warmup' = outcome
         /\ SetConv(WarmupEffect(Cur, outcome))
    /\ UNCHANGED <<ret, alive, n_assistant, n_tool>>
    /\ UNCHANGED toolVars
    /\ UNCHANGED <<frontend, pc, choice, idx, calls, tool_rounds, request,
                   exchange_start, exchanges, saved, exit_status, sessVars,
                   no_tools, tools_sent, input_history, first_message,
                   agent_explicitly_set, agents_dir, now>>

NextLoop ==
    \/ SubmitInput
    \/ BackendRespond
    \/ DispatchTool
    \/ FinishExchange
    \/ Exit

SpecLoop == InitLoop /\ [][NextLoop]_vars

(***************************************************************************)
(* The TUI from its start, with the warm-up request in flight beside the   *)
(* main loop.                                                              *)
(***************************************************************************)
InitWarmup ==
    /\ ConvInit
    /\ policy = "always-ask"
    /\ sandbox_mode = "workspace-write"
    /\ cwd = "/work"
    /\ files = {}
    /\ dirs = {}
    /\ executed = <<>>
    /\ gate = NoGate
    /\ tool_ret = NoToolRet
    /\ full_auto = FALSE
    /\ session_id = SessionId(StartSecond)
    /\ working_directory = "/work"
    /\ frontend = "tui"
    /\ pc = "idle"
    /\ choice = NoChoice
    /\ idx = 0
    /\ calls = 0
    /\ tool_rounds = 0
    /\ request = <<>>
    /\ exchange_start = 0
    /\ exchanges = 0
    /\ saved = NoFiles
    /\ exit_status = "running"
    /\ no_tools = FALSE
    /\ tools_sent = FALSE
    /\ warmup = "pending"
    /\ input_history = <<>>
    /\ first_message = TRUE
    /\ agent_explicitly_set = FALSE
    /\ agents_dir = {}
    /\ now = StartSecond

NextWarmup ==
    \/ SubmitInput
    \/ BackendRespond
    \/ DispatchTool
    \/ FinishExchange
    \/ Exit
    \/ Warmup

SpecWarmup == InitWarmup /\ [][NextWarmup]_vars

(***************************************************************************)
(* vork ask: one exchange on the question of the command line, with or     *)
(* without --no-tools.                                                     *)
(***************************************************************************)
InitAsk ==
    \E config \in LoopConfigs, nt \in BOOLEAN :
      /\ ConvInit
      /\ policy = config[1]
      /\ sandbox_mode = config[2]
      /\ cwd = "/work"
      /\ files = {}
      /\ dirs = {}
      /\ executed = <<>>
      /\ gate = NoGate
      /\ tool_ret = NoToolRet
      /\ full_auto = FALSE
      /\ session_id = ""
      /\ working_directory = ""
      /\ frontend = "ask"
      /\ pc = "idle"
      /\ choice = NoChoice
      /\ idx = 0
      /\ calls = 0
      /\ tool_rounds = 0
      /\ request = <<>>
      /\ exchange_start = 0
      /\ exchanges = 0
      /\ saved = NoFiles
      /\ exit_status = "running"
      /\ no_tools = nt
      /\ tools_sent = FALSE
      /\ warmup = "none"
      /\ input_history = <<>>
      /\ first_message = TRUE
      /\ agent_explicitly_set = FALSE
      /\ agents_dir = {}
      /\ now = StartSecond

NextAsk ==
    \/ SubmitInput
    \/ BackendRespond
    \/ DispatchTool
    \/ FinishExchange

SpecAsk == InitAsk /\ [][NextAsk]_vars

(***************************************************************************)
(* The input prompt of the interactive front ends: lines with and without  *)
(* agent keywords, empty lines, a TUI started with or without an agent and *)
(* with different agents directories.                                      *)
(***************************************************************************)
\* The line the operator submits; it holds keywords of both agents.
TaskTexts == {"fix the failing test"}

\* Lines that are empty once trimmed.
EmptyLines == {"", "  "}

\* How the TUI is started: the agent named on the command line, which
\* Agent::load has found, and the agents directory.
TuiStarts ==
    {[agent |-> NoAgent, dir |-> {}],
     [agent |-> NoAgent, dir |-> {"debugger"}],
     [agent |-> NoAgent, dir |-> AgentNames],
     [agent |-> Some("test-writer"), dir |-> AgentNames]}

\* The Conversation of App::new: Session::new, set_max_context, then the
\* agent's prompt written over the content of the system message.
AppNewConversation(agent, context_limit) ==
    LET c == Conv(ConversationNew.messages, ConversationNew.estimated_tokens,
                  context_limit)
    IN  IF agent.some
        THEN SystemPromptReplaced(c, AgentSystemPrompt(agent.val))
        ELSE c

InitTui ==
    \E fe \in {"chat", "tui"}, start \in TuiStarts :
      /\ fe = "chat" => start = [agent |-> NoAgent, dir |-> {}]
      /\ frontend = fe
      /\ messages = AppNewConversation(start.agent, DEFAULT_MAX_CONTEXT).messages
      /\ estimated_tokens =
             AppNewConversation(start.agent, DEFAULT_MAX_CONTEXT).estimated_tokens
      /\ max_context = DEFAULT_MAX_CONTEXT
      /\ ret = Ret("new", "()", FALSE, "none")
      /\ alive = TRUE
      /\ n_assistant = 0
      /\ n_tool = 0
      /\ policy = "auto"
      /\ sandbox_mode = "read-only"
      /\ cwd = "/work"
      /\ files = {}
      /\ dirs = {}
      /\ executed = <<>>
      /\ gate = NoGate
      /\ tool_ret = NoToolRet
      /\ full_auto = FALSE
      /\ session_id = "1700000000"
      /\ working_directory = "/work"
      /\ pc = "idle"
      /\ choice = NoChoice
      /\ idx = 0
      /\ calls = 0
      /\ tool_rounds = 0
      /\ request = <<>>
      /\ exchange_start = 0
      /\ exchanges = 0
      /\ saved = NoFiles
      /\ exit_status = "running"
      /\ no_tools = FALSE
      /\ tools_sent = FALSE
      \* the warm-up request has been answered
      /\ warmup = IF fe = "tui" THEN "ok" ELSE "none"
      /\ input_history = <<>>
      /\ first_message = TRUE
      /\ agent_explicitly_set = start.agent.some
      /\ agents_dir = start.dir
      /\ now = StartSecond

SubmitTask ==
    /\ TakesInput
    /\ \E text \in TaskTexts :
         /\ input_history' = Pushed(text)
         /\ StartExchange(text)

\* The operator submits a line that is empty once trimmed.  chat reads the
\* next line (`continue`).  In the TUI prepare_send_message returns at
\* once, and run_app still calls do_send_message, which takes
\* input_history.last().unwrap(): a panic on an empty history, the line
\* submitted before otherwise.
SubmitEmptyInput ==
    /\ alive
    /\ pc = "idle"
    /\ frontend \in {"chat", "tui"}
    /\ (frontend = "tui" /\ input_history # <<>>) => exchanges < MaxExchanges
    /\ \E line \in EmptyLines :
         IF frontend = "chat"
         THEN UNCHANGED vars
         ELSE IF input_history = <<>>
         THEN /\ alive' = FALSE
              /\ pc' = "exited"
              /\ exit_status' = "panic"
              /\ UNCHANGED <<messages, estimated_tokens, max_context, ret,
                             n_assistant, n_tool>>
              /\ UNCHANGED toolVars
              /\ UNCHANGED <<frontend, choice, idx, calls, tool_rounds,
                             request, exchange_start, exchanges, saved,
                             sessVars, uiVars>>
         ELSE /\ input_history' = input_history
              /\ StartExchange(input_history[Len(input_history)])

\* The operator types clear at the prompt of chat: the session is replaced
\* by Session::new(current_dir()?); the one held before is not saved here.
Clear ==
    /\ alive
    /\ pc = "idle"
    /\ frontend = "chat"
    /\ IF cwd = ""
       THEN /\ pc' = "exited"
            /\ exit_status' = "Err"
            /\ UNCHANGED <<messages, estimated_tokens, max_context, ret,
                           session_id, working_directory>>
       ELSE /\ SetSession(SessionNew(SessionId(now), cwd))
            /\ ret' = Ret("new", "()", FALSE, "none")
            /\ UNCHANGED <<pc, exit_status>>
    /\ UNCHANGED <<alive, n_assistant, n_tool, full_auto>>
    /\ UNCHANGED toolVars
    /\ UNCHANGED <<frontend, choice, idx, calls, tool_rounds, request,
                   exchange_start, exchanges, saved, uiVars>>

\* The wall clock reaches the next second.
Tick ==
    /\ alive
    /\ pc # "exited"
    /\ now + 1 \in ClockSeconds
    /\ now' = now + 1
    /\ UNCHANGED <<convAll, toolVars, sessVars>>
    /\ UNCHANGED <<frontend, pc, choice, idx, calls, tool_rounds, request,
                   exchange_start, exchanges, saved, exit_status, no_tools,
                   tools_sent, tuiVars>>

NextTui ==
    \/ SubmitTask
    \/ SubmitEmptyInput
    \/ BackendRespond
    \/ DispatchTool
    \/ FinishExchange
    \/ Exit
    \/ Clear
    \/ Tick

SpecTui == InitTui /\ [][NextTui]_vars

(***************************************************************************)
(* End-to-end scenario C: a TUI whose log has 40 messages and whose        *)
(* estimate is at 80% of a context limit of 1000 tokens.  The TUI was      *)
(* started with an agent, whose prompt replaced the system message, and    *)
(* has compacted once, so that the estimate is the sum recomputed by that  *)
(* compaction plus what was added since.                                   *)
(***************************************************************************)
ScenarioAgentPrompt == "You are a debugging specialist for Rust."

ScenarioContextLimit == 1000

ScenarioLog ==
    <<Message("system", ScenarioAgentPrompt),
      Message("assistant", SummaryContent(5, "Summary."))>>
    \o [i \in 1..37 |->
          IF i % 2 = 1
          THEN Message("user", "Please look at src/main.rs and run tests")
          ELSE Message("assistant", "I ran the tests; all of them pass today.")]
    \o <<Message("assistant", "All done; nothing else is left here.")>>

InitScenarioC ==
    /\ messages = ScenarioLog
    /\ estimated_tokens = SumEstimates(ScenarioLog)
    /\ max_context = ScenarioContextLimit
    /\ ret = Ret("compact_if_needed", "Ok(false)", FALSE, "none")
    /\ alive = TRUE
    /\ n_assistant = 0
    /\ n_tool = 0
    /\ policy = "always-ask"
    /\ sandbox_mode = "workspace-write"
    /\ cwd = "/work"
    /\ files = {}
    /\ dirs = {}
    /\ executed = <<>>
    /\ gate = NoGate
    /\ tool_ret = NoToolRet
    /\ full_auto = FALSE
    /\ session_id = "1700000000"
    /\ working_directory = "/work"
    /\ frontend = "tui"
    /\ pc = "idle"
    /\ choice = NoChoice
    /\ idx = 0
    /\ calls = 0
    /\ tool_rounds = 0
    /\ request = <<>>
    /\ exchange_start = 0
    /\ exchanges = 0
    /\ saved = save(Session("1700000000", Conv(ScenarioLog,
                                               SumEstimates(ScenarioLog),
                                               ScenarioContextLimit),
                             "/work"), NoFiles, "ok").saved
    /\ exit_status = "running"
    /\ no_tools = FALSE
    /\ tools_sent = TRUE
    /\ warmup = "ok"
    /\ input_history = <<"Please look at src/main.rs and run tests">>
    /\ first_message = TRUE
    /\ agent_explicitly_set = TRUE
    /\ agents_dir = {"debugger"}
    /\ now = StartSecond + 1

NextScenarioC ==
    \/ SubmitInput
    \/ BackendRespond
    \/ DispatchTool
    \/ FinishExchange
    \/ Exit

SpecScenarioC == InitScenarioC /\ [][NextScenarioC]_vars

(***************************************************************************)
(* Saving and loading sessions: a session made by Session::new, messages   *)
(* added to it, Session::save and Session::load by id.                     *)
(***************************************************************************)
\* Message contents with the characters JSON escapes.
SessionTexts == {"say \"hi\"", "a\\b\nc"}

InitSession ==
    /\ ToolInit
    /\ session_id \in SessionIds
    /\ working_directory \in SessionDirs
    /\ messages = ConversationNew.messages
    /\ estimated_tokens = ConversationNew.estimated_tokens
    /\ max_context = ConversationNew.max_context
    /\ ret = Ret("new", "()", FALSE, "none")
    /\ alive = TRUE
    /\ n_assistant = 0
    /\ n_tool = 0
    /\ full_auto = FALSE
    /\ frontend = "chat"
    /\ pc = "idle"
    /\ choice = NoChoice
    /\ idx = 0
    /\ calls = 0
    /\ tool_rounds = 0
    /\ request = <<>>
    /\ exchange_start = 0
    /\ exchanges = 0
    /\ saved = NoFiles
    /\ exit_status = "running"
    /\ UiInit

SessionAddMessage ==
    /\ Len(messages) < MaxSessionMessages
    /\ \E text \in SessionTexts : SetConv(add_user_message(Cur, text))
    /\ ret' = Ret("add_user_message", "()", FALSE, "none")
    /\ UNCHANGED <<alive, n_assistant, n_tool>>
    /\ UNCHANGED toolVars
    /\ UNCHANGED loopVars

SessionSave ==
    /\ \E io \in SaveOutcomes :
         LET written == save(CurSession, saved, io)
         IN  /\ saved' = written.saved
             /\ ret' = Ret("save", written.result, FALSE, "none")
    /\ UNCHANGED <<messages, estimated_tokens, max_context, alive,
                   n_assistant, n_tool>>
    /\ UNCHANGED toolVars
    /\ UNCHANGED <<frontend, pc, choice, idx, calls, tool_rounds, request,
                   exchange_start, exchanges, exit_status, sessVars, uiVars>>

\* Session::load(id) as resume calls it; on Ok the loaded session replaces
\* the one held.
SessionLoad ==
    /\ \E id \in SessionIds :
         LET loaded == load(id, saved)
         IN  /\ ret' = Ret("load", loaded.result, FALSE, "none")
             /\ IF loaded.result = "Ok"
                THEN SetSession(loaded.session)
                ELSE UNCHANGED <<messages, estimated_tokens, max_context,
                                 session_id, working_directory>>
    /\ UNCHANGED <<alive, n_assistant, n_tool>>
    /\ UNCHANGED toolVars
    /\ UNCHANGED <<frontend, pc, choice, idx, calls, tool_rounds, request,
                   exchange_start, exchanges, saved, exit_status, full_auto,
                   uiVars>>

NextSession ==
    \/ SessionAddMessage
    \/ SessionSave
    \/ SessionLoad

SpecSession == InitSession /\ [][NextSession]_vars

(***************************************************************************)
(* Properties                                                              *)
(***************************************************************************)
\* The estimate the specification gives for a log: the sum over its messages
\* of (byte length of the content / 4, rounded down) + 10.
RECURSIVE LogEstimate(_)
LogEstimate(msgs) ==
    IF msgs = <<>> THEN 0
    ELSE (StrLen(Head(msgs).content) \div 4) + 10 + LogEstimate(Tail(msgs))

Compacted ==
    \/ ret.op = "compact_if_needed" /\ ret.result = "Ok(true)"
    \/ ret.op = "handle_compact_command" /\ ret.result = "Ok(compacted)"

\* C1: from a new Conversation, after every sequence of add_user_message,
\* add_assistant_message, add_tool_result and compactions, estimated_tokens
\* is the sum over the messages in the log of len(content)/4 + 10, the
\* stored (wrapped) text being what is counted for a tool result.
C1_TokensAreSum == estimated_tokens = LogEstimate(messages)

\* A compacted log that still holds a wrapped tool result and an assistant
\* message in its tail.
C1_Witness ==
    /\ Compacted
    /\ \E i \in 3..Len(messages) :
         messages[i].content = ToolResultContent("bash_exec", "ok")
    /\ \E i \in 3..Len(messages) : messages[i].role = "assistant"

\* C2: a compaction of a log of N > 11 messages leaves exactly 12 messages:
\* the old system message, one summary message, then the old log's last 10
\* messages unchanged and in order.
C2_CompactionShape ==
    [][ (/\ ret'.op \in {"compact_if_needed", "handle_compact_command"}
         /\ ret'.result \in {"Ok(true)", "Ok(compacted)"})
        => (/\ Len(messages) > 11
            /\ Len(messages') = 12
            /\ messages'[1] = messages[1]
            /\ messages'[2].role = "assistant"
            /\ \E r \in Replies :
                 messages'[2].content =
                     "[Conversation summary of " \o ToString(Len(messages) - 11)
                         \o " messages]\n\n" \o r.content
            /\ \A i \in 1..10 :
                 messages'[2 + i] = messages[Len(messages) - 10 + i]) ]_vars

\* A forced compaction has happened, below the 75% threshold, and left a
\* summary of one message.
C2_Witness ==
    /\ ret.op = "handle_compact_command"
    /\ ret.result = "Ok(compacted)"
    /\ Len(messages) = 12
    /\ 4 * estimated_tokens <= 3 * max_context
    /\ messages[2].content = "[Conversation summary of 1 messages]\n\nSummary."

\* C3: compact_if_needed on a log of 11 or fewer messages returns false,
\* calls no backend and changes neither the messages, nor estimated_tokens,
\* nor max_context, whatever estimated_tokens is.
C3_SmallLogUntouched ==
    [][ (ret'.op = "compact_if_needed" /\ Len(messages) <= 11)
        => (/\ ret'.result = "Ok(false)"
            /\ ~ret'.backend
            /\ messages' = messages
            /\ estimated_tokens' = estimated_tokens
            /\ max_context' = max_context) ]_vars

\* compact_if_needed was called on an 11-message log above the threshold.
C3_Witness ==
    /\ ret.op = "compact_if_needed"
    /\ Len(messages) = 11
    /\ 4 * estimated_tokens > 3 * max_context

\* C4: needs_compaction, computed with integer division, is true exactly
\* when estimated_tokens exceeds three quarters of max_context as an exact
\* ratio, and false when estimated_tokens is exactly 75% of max_context.
C4_ThresholdExact ==
    ret.op = "needs_compaction"
    => /\ (ret.result = "true") <=> (4 * estimated_tokens > 3 * max_context)
       /\ (4 * estimated_tokens = 3 * max_context) => (ret.result = "false")

\* needs_compaction answered false exactly at 75% of a non-zero ceiling.
C4_Witness ==
    /\ ret.op = "needs_compaction"
    /\ max_context > 0
    /\ 4 * estimated_tokens = 3 * max_context
    /\ ret.result = "false"

C6_SystemPromptFirst ==
    /\ Len(messages) >= 1
    /\ messages[1].role = "system"
    /\ messages[1].content = SYSTEM_PROMPT

\* An automatic compaction has rebuilt the log around a summary without
\* text (the reply carried no content).
C6_Witness ==
    /\ ret.op = "compact_if_needed"
    /\ ret.result = "Ok(true)"
    /\ ret.reply = "ok_none"
    /\ Len(messages) = 12
    /\ messages[2].content = "[Conversation summary of 1 messages]\n\n"

\* The critical pattern list as the specification names it.
HasCriticalPattern(command) ==
    \E pattern \in {"sudo", "shutdown", "reboot", "mkfs", "dd if=", "format",
                     "> /dev/"} :
        \E i \in 1..Len(command) :
            i + Len(pattern) - 1 <= Len(command)
            /\ SubSeq(command, i, i + Len(pattern) - 1) = pattern

\* C7: a write_file mutation of the file system (creation of parent
\* directories included) or a bash_exec execution happens only in a call
\* whose gate consultation, for that very path or command, returned approve;
\* after a deny or a gate error nothing is written, created or executed.
C7_EffectsOnlyAfterApproval ==
    [][ (\/ files' # files
         \/ dirs' # dirs
         \/ executed' # executed
         \/ tool_ret'.effects # {})
        => (/\ gate'.consulted
            /\ gate'.result = "Ok(true)"
            /\ gate'.target = tool_ret'.target
            /\ executed' # executed
                 => (/\ gate'.kind = "bash"
                     /\ executed' = Append(executed, gate'.target)
                     /\ files' = files /\ dirs' = dirs)
            /\ (files' # files \/ dirs' # dirs)
                 => (/\ gate'.kind = "write"
                     /\ executed' = executed
                     /\ \A f \in files' \ files : f.path = gate'.target
                     /\ \A f \in files \ files' : f.path = gate'.target
                     /\ dirs' \ dirs \subseteq {Parent(gate'.target)}
                     /\ dirs \subseteq dirs')) ]_vars

\* A file was written after the operator approved the write at the prompt.
C7_Witness ==
    /\ tool_ret.name = "write_file"
    /\ "write" \in tool_ret.effects
    /\ gate.prompted
    /\ gate.result = "Ok(true)"
    /\ \E f \in files : f.path = gate.target

\* C8: in sandbox read-only, should_approve_write and should_approve_bash
\* return deny for every path, every command and every policy, without a
\* prompt.
C8_ReadOnlyDeniesAll ==
    (sandbox_mode = "read-only" /\ gate.consulted)
    => (gate.result = "Ok(false)" /\ ~gate.prompted)

\* The gate was asked about a shell command in sandbox read-only under
\* policy never.
C8_Witness ==
    /\ sandbox_mode = "read-only"
    /\ policy = "never"
    /\ gate.consulted
    /\ gate.kind = "bash"
    /\ gate.target = "ls"

\* C9: in sandbox danger-full-access with policy never, a shell command is
\* approved without a prompt exactly when it contains no critical pattern;
\* with one, the operator is prompted.
C9_NeverPromptsOnlyForCritical ==
    (/\ sandbox_mode = "danger-full-access"
     /\ policy = "never"
     /\ gate.consulted
     /\ gate.kind = "bash")
    => /\ (gate.result = "Ok(true)" /\ ~gate.prompted)
            <=> ~HasCriticalPattern(gate.target)
       /\ HasCriticalPattern(gate.target) <=> gate.prompted

\* The operator was prompted for a sudo command and refused it, in sandbox
\* danger-full-access under policy never.
C9_Witness ==
    /\ sandbox_mode = "danger-full-access"
    /\ policy = "never"
    /\ gate.kind = "bash"
    /\ gate.target = "sudo reboot"
    /\ gate.prompted
    /\ gate.result = "Ok(false)"

\* C10: under policy never, in every sandbox mode, a shell command that
\* matches the critical pattern list is executed only after the operator
\* confirmed it at the prompt.
C10_NeverCannotBypassCritical ==
    (/\ policy = "never"
     /\ tool_ret.name = "bash_exec"
     /\ "exec" \in tool_ret.effects
     /\ HasCriticalPattern(tool_ret.target))
    => (gate.prompted /\ gate.result = "Ok(true)")

\* The sandbox modes more permissive than a given one, in the order
\* read-only < workspace-write < danger-full-access.
MorePermissive(sandbox) ==
    CASE sandbox = "read-only" -> {"workspace-write", "danger-full-access"}
      [] sandbox = "workspace-write" -> {"danger-full-access"}
      [] OTHER -> {}

ApprovedUnasked(d) == d.result = "Ok(true)" /\ ~d.prompted

\* C11: for every policy and every operation, an operation the gate approves
\* without a prompt in one sandbox mode is approved without a prompt in
\* every more permissive sandbox mode.
C11_SandboxOrderMonotone ==
    (gate.consulted /\ ApprovedUnasked(gate))
    => \A sandbox \in MorePermissive(sandbox_mode), answer \in GateAnswers :
           ApprovedUnasked(
               IF gate.kind = "write"
               THEN should_approve_write(policy, sandbox, gate.target, cwd, answer)
               ELSE should_approve_bash(policy, sandbox, gate.target, answer))

\* Where a path leads once "." and ".." are resolved, as a list of names
\* below the root; a relative path starts from the working directory.
RECURSIVE Resolve(_, _)
Resolve(pieces, acc) ==
    IF pieces = <<>> THEN acc
    ELSE IF Head(pieces) = "." THEN Resolve(Tail(pieces), acc)
    ELSE IF Head(pieces) = ".."
    THEN Resolve(Tail(pieces),
                 IF acc = <<>> THEN acc ELSE SubSeq(acc, 1, Len(acc) - 1))
    ELSE Resolve(Tail(pieces), Append(acc, Head(pieces)))

ResolvesInside(path, dir) ==
    LET base == Resolve(SplitPath(dir, ""), <<>>)
        full == IF Len(path) > 0 /\ SubSeq(path, 1, 1) = "/"
                THEN Resolve(SplitPath(path, ""), <<>>)
                ELSE Resolve(SplitPath(path, ""), base)
    IN  /\ Len(base) <= Len(full)
        /\ SubSeq(full, 1, Len(base)) = base

\* C12: in sandbox workspace-write with policy auto, with the working
\* directory known, a write is approved without a prompt exactly when its
\* target path resolves inside the working directory, whatever the shape of
\* the path; every other write goes to the operator prompt.
C12_AutoWriteInsideWorkspaceOnly ==
    (/\ sandbox_mode = "workspace-write"
     /\ policy = "auto"
     /\ cwd # ""
     /\ gate.consulted
     /\ gate.kind = "write")
    => /\ ApprovedUnasked(gate) <=> ResolvesInside(gate.target, cwd)
       /\ gate.prompted <=> ~ResolvesInside(gate.target, cwd)

\* The dangerous pattern list as the specification names it.
HasDangerousPattern(command) ==
    \E pattern \in {"rm -rf", "rm -fr", "sudo", "shutdown", "reboot", "mkfs",
                     "dd if=", "format", "> /dev/", "curl", "wget", "nc ",
                     "netcat"} :
        \E i \in 1..Len(command) :
            i + Len(pattern) - 1 <= Len(command)
            /\ SubSeq(command, i, i + Len(pattern) - 1) = pattern

\* The lines that, trimmed and lower-cased, read y or yes, among those the
\* operator types here.
ApprovingLines == {"y\n", " YES \n", "Yes\n"}

\* The decision follows the one line read at the prompt.
DecidedByPrompt(g) ==
    /\ g.prompted
    /\ g.reads = 1
    /\ g.result \in {"Ok(true)", "Ok(false)", "Err"}
    /\ g.result = "Ok(true)" <=> g.line \in ApprovingLines

\* C13: in sandbox workspace-write with policy auto, a shell command is
\* approved without a prompt exactly when it contains none of the dangerous
\* patterns; a command that contains one is decided by the operator prompt.
C13_AutoBashUnlessDangerous ==
    (/\ sandbox_mode = "workspace-write"
     /\ policy = "auto"
     /\ gate.consulted
     /\ gate.kind = "bash")
    => /\ ApprovedUnasked(gate) <=> ~HasDangerousPattern(gate.target)
       /\ HasDangerousPattern(gate.target) => DecidedByPrompt(gate)

\* The operator was prompted for a curl command and refused it, in sandbox
\* workspace-write under policy auto.
C13_Witness ==
    /\ sandbox_mode = "workspace-write"
    /\ policy = "auto"
    /\ gate.kind = "bash"
    /\ gate.target = "curl http://localhost"
    /\ gate.prompted
    /\ gate.result = "Ok(false)"

\* C14: under policy always-ask or read-only, in sandbox workspace-write and
\* in sandbox danger-full-access, every write and every shell command is
\* decided by the operator prompt; none is approved or denied unasked.
C14_AskingPoliciesAlwaysPrompt ==
    (/\ policy \in {"always-ask", "read-only"}
     /\ sandbox_mode \in {"workspace-write", "danger-full-access"}
     /\ gate.consulted)
    => DecidedByPrompt(gate)

\* Under policy read-only in sandbox danger-full-access the operator was
\* prompted for a write inside the working directory and approved it.
C14_Witness ==
    /\ policy = "read-only"
    /\ sandbox_mode = "danger-full-access"
    /\ gate.kind = "write"
    /\ gate.target = "notes.txt"
    /\ gate.prompted
    /\ gate.result = "Ok(true)"

\* C15: a prompt reads exactly one line for the operation; the operation is
\* approved only when that line, trimmed and lower-cased, is y or yes; every
\* other line, the empty one included, denies it, and no second line is
\* read for the same operation.
C15_PromptIsSingleShot ==
    (gate.consulted /\ gate.prompted)
    => /\ gate.reads = 1
       /\ gate.result = "Ok(true)" => gate.line \in ApprovingLines
       /\ (gate.result # "Err" /\ gate.line \notin ApprovingLines)
              => gate.result = "Ok(false)"
       /\ gate.line \in ApprovingLines => gate.result = "Ok(true)"

\* The operator answered the prompt with an empty line and the operation was
\* denied after that one read.
C15_Witness ==
    /\ gate.prompted
    /\ gate.line = "\n"
    /\ gate.reads = 1
    /\ gate.result = "Ok(false)"

\* A step of the loop that processed a tool call, and one that made a
\* backend call.
ToolStep == idx' = idx + 1
BackendStep == calls' = calls + 1

InLoop(at) == at \in {"awaiting_backend", "dispatching"}

\* The denial text of the two gated tools.
DenialText(name, target) ==
    IF name = "write_file"
    THEN "Write to " \o target \o " was denied by user"
    ELSE "Command '" \o target \o "' was denied by user"

\* C16: when the gate denies a write_file or bash_exec call, nothing is
\* written or executed, the denial is appended to the log as an ordinary
\* tool-result message (no "Error:" text, no failure of the exchange), the
\* loop stays in the exchange, and the backend calls that follow send the
\* whole log, which keeps that message.
C16_DenialIsOrdinaryResult ==
    [][ /\ (ToolStep /\ gate'.consulted /\ gate'.result = "Ok(false)")
            => /\ files' = files /\ dirs' = dirs /\ executed' = executed
               /\ tool_ret'.effects = {}
               /\ messages' =
                      Append(messages,
                             Message("user",
                                     "Tool execution result:\nTool: "
                                         \o tool_ret'.name \o "\nResult:\n"
                                         \o DenialText(tool_ret'.name,
                                                       tool_ret'.target)))
               /\ InLoop(pc')
               /\ exit_status' = "running"
        /\ BackendStep => request' = messages
        /\ InLoop(pc)
            => (Len(messages') >= Len(messages)
                /\ SubSeq(messages', 1, Len(messages)) = messages) ]_vars

\* The operator refused the write at the prompt, no file was written, the
\* shell command of the same response ran, and the second backend call was
\* sent the log with the denial in it.
C16_Witness ==
    /\ policy = "always-ask"
    /\ calls = 2
    /\ files = {}
    /\ executed = <<"ls">>
    /\ \E i \in 1..Len(request) :
           request[i] =
               Message("user",
                       "Tool execution result:\nTool: write_file\nResult:\n"
                           \o "Write to notes.txt was denied by user")

\* The first `done` tool calls of the list have their tool-result messages,
\* one each and in the order of the list, at the end of the log.
ResultsInOrder(msgs, list, done) ==
    /\ done <= Len(list)
    /\ done < Len(msgs)
    /\ \A i \in 1..done :
           LET m == msgs[Len(msgs) - done + i]
               header == "Tool execution result:\nTool: " \o list[i].name \o "\n"
           IN  /\ m.role = "user"
               /\ Len(m.content) >= Len(header)
               /\ SubSeq(m.content, 1, Len(header)) = header

\* C17: the tool calls of one response are processed one at a time in the
\* order returned: each step executes the next call of the list and appends
\* its one tool-result message before the following call starts, the log
\* holds the results in response order, and no backend call is made in a
\* step that executes a tool, nor a tool executed in a backend call's step.
C17_ToolCallsSequentialInOrder ==
    [][ /\ ToolStep
            => /\ pc = "dispatching"
               /\ tool_ret'.name = choice.tool_calls.val[idx + 1].name
               /\ Len(messages') = Len(messages) + 1
               /\ SubSeq(messages', 1, Len(messages)) = messages
               /\ calls' = calls
               /\ request' = request
               /\ choice' = choice
        /\ (files' # files \/ dirs' # dirs \/ executed' # executed) => ToolStep
        /\ BackendStep
            => /\ pc = "awaiting_backend"
               /\ files' = files /\ dirs' = dirs /\ executed' = executed
               /\ tool_ret' = tool_ret
        /\ (choice'.status = "ok" /\ choice'.tool_calls.some)
            => ResultsInOrder(messages', choice'.tool_calls.val, idx') ]_vars

\* Both calls of a response were executed: the file is written, the command
\* has run, and the log ends with the two results in that order.
C17_Witness ==
    /\ pc = "awaiting_backend"
    /\ idx = 2
    /\ choice.tool_calls.val[1].name = "write_file"
    /\ choice.tool_calls.val[2].name = "bash_exec"
    /\ \E f \in files : f.path = "notes.txt"
    /\ executed = <<"ls">>
    /\ messages[Len(messages) - 1].content =
           "Tool execution result:\nTool: write_file\nResult:\n"
               \o "Wrote 12 bytes to notes.txt"
    /\ messages[Len(messages)].content =
           "Tool execution result:\nTool: bash_exec\nResult:\n"
               \o "Executed: ls\nExit code: 0"

\* C18: after a response with tool calls the loop goes on to another backend
\* call once the calls are processed: from the tool calls it moves only to
\* the next tool call, to the next backend call or, on a fatal error, out
\* with that error; waiting for the backend it does nothing but call it; and
\* it leaves the loop towards the operator only on a response without a
\* tool_calls field.
C18_ToolCallsLeadToBackendCall ==
    [][ /\ pc = "dispatching"
            => \/ InLoop(pc')
               \/ pc' = "exited" /\ exit_status' = "Err"
        /\ (pc = "dispatching" /\ pc' = "awaiting_backend")
            => idx' = Len(choice.tool_calls.val)
        /\ pc = "awaiting_backend" => BackendStep
        /\ (BackendStep /\ choice'.status = "ok" /\ choice'.tool_calls.some)
            => InLoop(pc')
        /\ (InLoop(pc) /\ ~InLoop(pc'))
            => \/ pc' = "exited" /\ exit_status' = "Err"
               \/ /\ pc' = "finishing"
                  /\ BackendStep
                  /\ choice'.status = "ok"
                  /\ ~choice'.tool_calls.some ]_vars

\* After a response with two tool calls, both processed, the loop called the
\* backend a second time and got the final answer.
C18_Witness ==
    /\ pc = "finishing"
    /\ calls = 2
    /\ n_tool = 2
    /\ ~choice.tool_calls.some

\* C19: a response with zero tool calls, the tool_calls field absent or an
\* empty list, is the final answer: the loop is left without another
\* backend call, whatever the content.
C19_ZeroToolCallsIsFinal ==
    [][ (/\ BackendStep
         /\ choice'.status = "ok"
         /\ (~choice'.tool_calls.some \/ choice'.tool_calls.val = <<>>))
        => pc' = "finishing" ]_vars

\* No assistant message has been appended since the exchange began.
NoAssistantSince(msgs, start) ==
    \A i \in (start + 1)..Len(msgs) : msgs[i].role # "assistant"

\* The step in which the loop takes a response as the final answer.
FinalAnswerStep == pc # "finishing" /\ pc' = "finishing"

WithoutSlotLines(text) ==
    CASE text = "Done.\n\nslot 3 released\nBye." -> "Done.\nBye."
      [] text = " \n" -> ""
      [] OTHER -> text

\* The assistant text a front end is to log for a final content.
LoggedAnswer(fe, content) ==
    IF fe # "tui" THEN content.val ELSE WithoutSlotLines(content.val)

C21_ParseErrorIsToolResult ==
    [][ (/\ pc = "dispatching"
         /\ ~choice.tool_calls.val[idx + 1].json_ok)
        => /\ exit_status' = "running"
           /\ InLoop(pc')
           /\ idx' = idx + 1
           /\ Len(messages') = Len(messages) + 1
           /\ SubSeq(messages', 1, Len(messages)) = messages
           /\ ResultsInOrder(messages', choice.tool_calls.val, idx') ]_vars

\* C22: a tool execution that fails (missing parameter, unreadable file,
\* unknown tool, failing system call, failing approval prompt) never fails
\* the exchange: the loop appends the tool-result message with the text
\* "Error: <message>" for that call and goes on with the next tool call and
\* then with the next backend call.
C22_ToolFailureIsErrorResult ==
    [][ /\ (pc = "dispatching" /\ choice.tool_calls.val[idx + 1].json_ok)
            => (ToolStep /\ InLoop(pc') /\ exit_status' = "running")
        /\ (ToolStep /\ tool_ret'.result = "Err")
            => /\ messages' =
                      Append(messages,
                             Message("user",
                                     "Tool execution result:\nTool: "
                                         \o choice.tool_calls.val[idx + 1].name
                                         \o "\nResult:\nError: "
                                         \o tool_ret'.text))
               /\ pc' = IF idx' < Len(choice.tool_calls.val)
                        THEN "dispatching" ELSE "awaiting_backend" ]_vars

\* Three calls of one response failed in turn (unknown tool, unreadable
\* file, missing parameter) and the next backend call was sent the three
\* error results.
C22_Witness ==
    /\ calls = 2
    /\ Len(request) >= 5
    /\ request[Len(request) - 2].content =
           "Tool execution result:\nTool: frobnicate\nResult:\n"
               \o "Error: Unknown tool: frobnicate"
    /\ request[Len(request) - 1].content =
           "Tool execution result:\nTool: read_file\nResult:\n"
               \o "Error: Failed to read file: missing.txt"
    /\ request[Len(request)].content =
           "Tool execution result:\nTool: write_file\nResult:\n"
               \o "Error: Missing 'content' parameter"

\* The step at which a backend call fails.
BackendFailure == pc = "awaiting_backend" /\ BackendStep /\ choice'.status # "ok"

\* C23: a failing backend call (transport error, non-2xx status, unparsable
\* or choice-less response) is not retried: no further backend call is made
\* after it, and the log keeps every message appended before the failure,
\* in the same order.
C23_BackendFailureNoRetryNoRollback ==
    [][ /\ BackendFailure => (messages' = messages /\ pc' = "exited")
        /\ (pc = "exited" /\ choice.status # "ok")
               => (~BackendStep /\ messages' = messages) ]_vars

\* The second backend call of an exchange failed after a round of tool
\* results had been appended, and those results are still in the log.
C23_Witness ==
    /\ pc = "exited"
    /\ choice.status = "no_choices"
    /\ calls = 2
    /\ n_tool >= 1
    /\ messages = request
    /\ Len(messages) >= 3
    /\ messages[2].content = "list files"

\* C24: a failed backend call ends the current exchange only: after it the
\* session is still running with the log it had, waiting for the operator's
\* next input.
C24_BackendFailureEndsExchangeOnly ==
    [][ BackendFailure
            => /\ exit_status' = "running"
               /\ pc' = "idle"
               /\ messages' = messages ]_vars

\* The step that ends an exchange after its final answer.
FinishStep ==
    /\ pc = "finishing"
    /\ pc' \in {"idle", "exited"}
    /\ exit_status' \in {"running", "Ok"}

\* The log a reader of the session file of the running session gets.
PersistedLog(dir) == load(session_id, dir).session.conversation.messages

\* C25: after every exchange that ends with a final answer, in chat,
\* resume, exec and the TUI alike, compact_if_needed is invoked and then
\* the session is saved, so that the saved log is the log in memory after
\* the compaction step.
C25_EveryFrontEndCompactsThenSaves ==
    [][ FinishStep
            => /\ ret'.op = "compact_if_needed"
               /\ saved'[session_id].exists
               /\ PersistedLog(saved') = messages' ]_vars

\* The step at which the operator's exit or quit ends the command.
ExitStep == pc = "idle" /\ pc' = "exited" /\ exit_status' = "Ok"

\* C26: when the operator enters exit or quit in chat, resume or the TUI,
\* the session is saved before the command ends: the session file exists
\* and holds the log, id and working directory the command had in memory.
C26_ExitSavesSession ==
    [][ ExitStep
            => /\ saved'[session_id].exists
               /\ PersistedLog(saved') = messages
               /\ load(session_id, saved').session.id = session_id
               /\ load(session_id, saved').session.working_directory
                      = working_directory ]_vars

\* C27: /compact compacts whether or not estimated_tokens is above 75% of
\* max_context, but only a log of at least 12 messages: on 11 or fewer
\* messages it leaves the log and estimated_tokens as they are and calls no
\* backend; on 12 or more it asks the backend for the summary and, given a
\* response with a choice, rebuilds the log.
C27_CompactTokenIgnoresThreshold ==
    [][ ret'.op = "handle_compact_command"
            => /\ Len(messages) <= 11
                   => /\ ret'.result = "Ok(refused)"
                      /\ ~ret'.backend
                      /\ messages' = messages
                      /\ estimated_tokens' = estimated_tokens
               /\ Len(messages) >= 12
                   => /\ ret'.backend
                      /\ ret'.reply \in {"ok", "ok_none"}
                             => /\ ret'.result = "Ok(compacted)"
                                /\ Len(messages') = 12
                                /\ messages'[2].role = "assistant"
                                /\ messages'[1] = messages[1] ]_vars

\* /compact rebuilt a log that was far below the threshold of the default
\* ceiling, around a summary the backend left empty.
C27_Witness ==
    /\ ret.op = "handle_compact_command"
    /\ ret.result = "Ok(compacted)"
    /\ ret.reply = "ok_none"
    /\ max_context = DEFAULT_MAX_CONTEXT
    /\ estimated_tokens < 1000
    /\ Len(messages) = 12
    /\ messages[2].content = "[Conversation summary of 1 messages]\n\n"

\* The step at which Session::load returns a session.
LoadStep == ret'.op = "load" /\ ret'.result = "Ok"

\* C28: a session that was saved and is then loaded by its id has the
\* message log that was saved (same length, same role and content at every
\* index), the working directory that was saved and the id it was saved
\* and asked for under.
C28_SaveLoadRoundTrip ==
    [][ LoadStep
            => /\ saved[session_id'].exists
               /\ session_id' = saved[session_id'].written.id
               /\ messages' = saved[session_id'].written.conversation.messages
               /\ working_directory'
                      = saved[session_id'].written.working_directory ]_vars

\* A session whose log and working directory hold quotes, a backslash and
\* a newline has come back from its file.
C28_Witness ==
    /\ ret.op = "load"
    /\ ret.result = "Ok"
    /\ working_directory = "/home/u/my \"notes\""
    /\ Len(messages) = 3
    /\ messages[2] = Message("user", "say \"hi\"")
    /\ messages[3] = Message("user", "a\\b\nc")
    /\ messages = saved[session_id].written.conversation.messages

\* C29: after a load, estimated_tokens is the sum of the per-message
\* estimates of the loaded log and max_context is a configured context
\* ceiling.
C29_LoadRecomputesRuntimeFields ==
    [][ LoadStep
            => /\ estimated_tokens' = LogEstimate(messages')
               /\ max_context' \in ContextLimits ]_vars

\* C30: exec without --full-auto runs its gate with sandbox read-only,
\* whatever policy and sandbox mode the configuration file holds: during
\* the whole run no file is written, no directory created, no command
\* executed and no approval prompt shown.
C30_ExecWithoutFullAutoIsReadOnly ==
    (frontend = "exec" /\ ~full_auto)
        => /\ sandbox_mode = "read-only"
           /\ files = {}
           /\ dirs = {}
           /\ executed = <<>>
           /\ ~gate.prompted
           /\ gate.reads = 0

\* An exec run without --full-auto under the configured policy never was
\* asked for a write_file and a bash_exec, denied both, and ended after
\* its save.
C30_Witness ==
    /\ frontend = "exec"
    /\ ~full_auto
    /\ policy = "never"
    /\ n_tool = 2
    /\ tool_ret.name = "bash_exec"
    /\ gate.consulted
    /\ gate.result = "Ok(false)"
    /\ exit_status = "Ok"
    /\ saved[session_id].exists

\* C31: in ask mode with --no-tools no tool schema is sent to the backend
\* and no tool is executed, whatever the response contains: the gate is
\* never consulted, nothing is run or written and no tool result is
\* appended.
C31_NoToolsExecutesNothing ==
    (frontend = "ask" /\ no_tools) =>
        /\ ~tools_sent
        /\ n_tool = 0
        /\ tool_ret = NoToolRet
        /\ gate = NoGate
        /\ executed = <<>>
        /\ files = {}

\* C32: from a 40-message log whose estimate is at 80% of a max_context of
\* 1000, the compact_if_needed that follows the next exchange asks the
\* backend for a summary and, whatever summary text comes back, leaves an
\* estimate strictly below the one it found.
ScenarioExchange ==
    /\ frontend = "tui"
    /\ max_context = ScenarioContextLimit
    /\ exchanges = 1
    /\ Len(messages) > ScenarioLen
    /\ SubSeq(messages, 1, ScenarioLen) = ScenarioLog
    /\ estimated_tokens >= SumEstimates(ScenarioLog)
    /\ 5 * SumEstimates(ScenarioLog) = 4 * ScenarioContextLimit

CompactionStep ==
    /\ pc = "finishing"
    /\ ret'.op = "compact_if_needed"
    /\ ret'.result = "Ok(true)"

C33_CompactionPartitionsLog ==
    [][CompactionStep =>
          LET N == Len(messages)
              K == N - 11
              summarized == MessagesToCompact(messages)
              tail == RecentMessages(messages)
          IN  /\ N > 11
              /\ K >= 1
              /\ summarized = [i \in 1..K |-> messages[1 + i]]
              /\ tail = [i \in 1..10 |-> messages[N - 10 + i]]
              /\ <<messages[1]>> \o summarized \o tail = messages
              /\ 1 + Len(summarized) + Len(tail) = N
              /\ StartsWith(messages'[2].content,
                            "[Conversation summary of " \o ToString(K)
                                \o " messages]\n\n")
              /\ messages'[1] = messages[1]
              /\ SubSeq(messages', 3, Len(messages')) = tail]_vars

\* The compaction of scenario C after an exchange without tool calls and
\* without answer text: 41 messages, of which 30 are summarized.
C33_Witness ==
    /\ ret.op = "compact_if_needed"
    /\ ret.result = "Ok(true)"
    /\ Len(messages) = 12
    /\ StartsWith(messages[2].content, "[Conversation summary of 30 messages]")
    /\ messages[12] = Message("user", "list files")

\* C34: when the backend eventually answers without tool calls and no call
\* fails, every exchange terminates.  The loop has no other way to end, so
\* this needs the exchange to end at the first response without tool calls:
\* the loop calls the backend again only to report tool results, and an
\* exchange is about to call the backend again only when it has processed
\* at least as many tool calls as it has made backend calls.
ToolResultsOfExchange == Len(messages) - exchange_start - 1

WarmupStep == warmup' # warmup

LoopCanStep ==
    /\ TakesInput => ENABLED SubmitInput
    /\ (alive /\ pc = "awaiting_backend") => ENABLED BackendRespond
    /\ (alive /\ pc = "dispatching") => ENABLED DispatchTool
    /\ (alive /\ pc = "finishing") => ENABLED FinishExchange
    /\ (alive /\ pc = "idle") => ENABLED Exit

C35_WarmupIsIndependent ==
    /\ [][WarmupStep =>
            /\ warmup = "pending"
            /\ warmup' \in {"ok", "failed"}
            /\ UNCHANGED <<convAll, toolVars, sessVars>>
            /\ UNCHANGED <<frontend, pc, choice, idx, calls, tool_rounds,
                           request, exchange_start, exchanges, saved,
                           exit_status, no_tools, tools_sent, input_history,
                           first_message, agent_explicitly_set, agents_dir,
                           now>>]_vars
    /\ [](warmup = "pending" => LoopCanStep)

\* An exchange with a tool call has run to its end and the session is saved
\* while the warm-up request was failing.
C35_Witness ==
    /\ frontend = "tui"
    /\ warmup = "failed"
    /\ pc = "idle"
    /\ exchanges = 1
    /\ n_tool > 0
    /\ saved[session_id].exists
    /\ exit_status = "running"

\* C36: /compact and compact_if_needed agree: on a log of more than 11
\* messages on which compact_if_needed compacts, a forced compaction that
\* gets the same reply from the backend leaves the same message log and
\* the same estimated_tokens, and ends the same way (compacted, error or
\* panic).
ForcedStep == ret'.op = "handle_compact_command"

C36_ForcedEqualsAutomatic ==
    [][(/\ ForcedStep
        /\ Len(messages) > 11
        /\ needs_compaction(estimated_tokens, max_context)) =>
          LET reply == CHOOSE r \in Replies : r.kind = ret'.reply
              auto == compact_if_needed(Cur, reply)
          IN  /\ ret'.backend
              /\ auto.backend
              /\ messages' = auto.conv.messages
              /\ estimated_tokens' = auto.conv.estimated_tokens
              /\ max_context' = auto.conv.max_context
              /\ alive' = ~auto.panic
              /\ (ret'.result = "Ok(compacted)") = (auto.result = "Ok(true)")
              /\ (ret'.result = "Err") = (auto.result = "Err")]_vars

\* A forced compaction with a summary has run on a log of 12 messages that
\* was above the threshold of the automatic one.
C36_Witness ==
    /\ ret.op = "handle_compact_command"
    /\ ret.result = "Ok(compacted)"
    /\ ret.reply = "ok"
    /\ max_context = 600
    /\ Len(messages) = 12
    /\ messages[2].content = "[Conversation summary of 1 messages]\n\nSummary."
    /\ needs_compaction(estimated_tokens, max_context)

\* C37: compact_if_needed is idempotent: called again right after a call
\* that compacted the log, with no message added in between, it returns
\* false, calls no backend and leaves the log and estimated_tokens as they
\* are.
C37_CompactionIsIdempotent ==
    [][(/\ ret.op = "compact_if_needed"
        /\ ret.result = "Ok(true)"
        /\ ret'.op = "compact_if_needed") =>
          /\ ret'.result = "Ok(false)"
          /\ ~ret'.backend
          /\ messages' = messages
          /\ estimated_tokens' = estimated_tokens]_vars

\* C38: an empty or whitespace-only line starts no exchange, in chat and
\* in the TUI: the step that handles it appends nothing to the log, calls
\* no backend, sends no earlier input again and leaves the front end at
\* its prompt.
C38_EmptyInputStartsNothing ==
    [][SubmitEmptyInput =>
          /\ messages' = messages
          /\ estimated_tokens' = estimated_tokens
          /\ exchanges' = exchanges
          /\ pc' = "idle"
          /\ alive']_vars

\* C39: in the TUI the replacement of the system message's content by an
\* agent's prompt, at startup or by auto-selection on the first message,
\* keeps estimated_tokens equal to the sum of the per-message estimates of
\* the log.
C39_AgentPromptKeepsEstimateExact ==
    (frontend = "tui" /\ alive) => estimated_tokens = LogEstimate(messages)

\* C40: two Sessions made by Session::new at different points of a run
\* have different ids: the session chat holds after clear has another id
\* than the one it held before, so that its file is not the file of the
\* earlier session.
C40_SessionIdsAreDistinct ==
    [][(Clear /\ pc' = "idle") =>
          /\ session_id' # session_id
          /\ ~saved[session_id'].exists]_vars

====
